---- MODULE Spec2Model ----
(***************************************************************************)
(* Model of the localization backend (Go server): the TTLCache (LRU with   *)
(* lazy TTL), the ConcurrencyLimiter middleware, the Redis tier and the    *)
(* getLocalizedComponentEndpoint handler.                                  *)
(*                                                                         *)
(* The specifications share the cache operations:                          *)
(*   CacheSpec  client goroutines calling Get/Put/Size/Clear on a          *)
(*              TTLCache built by NewTTLCache(maxSize, ttl);               *)
(*   Spec       the HTTP service of main(): requests through the limiter   *)
(*              into the endpoint, which uses componentCache and Redis;    *)
(*   PanicSpec  Spec with handlers that may panic;                         *)
(*   CancelSpec Spec with clients that give up during a Redis call;        *)
(*   LiveSpec   the requests under a fair scheduler;                       *)
(*   SerialSpec the requests of a client that sends one at a time;         *)
(*   SeqSpec    one goroutine calling the TTLCache methods in sequence;    *)
(*   HealthSpec the service with the GET /health route, at one instant;    *)
(*   GenSpec    getLocalizedComponent alone, on incomplete tables;         *)
(*   InterpSpec interpolateTemplate alone.                                 *)
(* Time is in milliseconds.                                                *)
(***************************************************************************)
EXTENDS Integers, Sequences, FiniteSets, TLC

\* ------------------------------------------------------------ bounds
MaxCapacity == 2       \* largest maxSize given to NewTTLCache in CacheSpec
MaxTTL == 1            \* largest ttl given to NewTTLCache in CacheSpec
MaxClock == 2          \* the clock stops advancing here in CacheSpec
NumValues == 1         \* distinct values the cache clients Put
MaxTicks == 1          \* clock advances per behaviour in Spec
MaxFinished == 1       \* no request is admitted once this many have returned
MaxMissing == 2        \* keys a table lacks in GenSpec
MaxPieces == 2         \* longest template given to interpolateTemplate in InterpSpec

\* ------------------------------------------------------------ program constants
ConcurrencyLimit == 2
CacheMaxSize == 50
CacheTTL == 600000     \* 10 * time.Minute
RedisTTL == 1800000    \* 30 * time.Minute
RedisTimeout == 2000   \* 2 * time.Second
IdModulus == 10000     \* time.Now().UnixMilli() % 10000

\* Goroutines: cache clients in CacheSpec, concurrent requests in Spec; one more
\* than the limiter admits, so that a request can find every token taken.
NumProcs == ConcurrencyLimit + 1

Procs == 1..NumProcs
KeyNames == <<"a", "b", "c", "d", "e", "f">>
CacheKeys == {KeyNames[i] : i \in 1..(MaxCapacity + 1)}
CacheValues == {[payload |-> i] : i \in 1..NumValues}
Nil == [nil |-> TRUE]

VARIABLES
  maxSize,     \* TTLCache.maxSize
  ttl,         \* TTLCache.ttl
  cache,       \* TTLCache.cache: the keys of the key -> element map
  lruList,     \* TTLCache.lruList: front (index 1) is least recently used
  timestamps,  \* TTLCache.timestamps: key -> time of last Put
  mu,          \* TTLCache.mu: 0 when free, else the goroutine holding it
  now,         \* wall clock
  call,        \* per goroutine: the cache method it is executing
  recency,     \* history: [key, putAt, putValue] of the present entries, the
               \* least recently Put or Get-hit first; putAt and putValue are
               \* the time and the argument of the last Put of the key
  redisClient, \* "nil" or "client": the global set by main()
  redis,       \* the Redis server: key -> [data, expireAt]
  semaphore,   \* ConcurrencyLimiter: tokens in the buffered channel
  req,         \* per goroutine: the HTTP request it is serving
  finished,    \* history: admitted requests that have returned
  panicked,    \* history: some handler has panicked
  probe,       \* the GET /health request being served, if any
  gen          \* a call of the generator on tables that lack some keys

cacheVars == <<maxSize, ttl, cache, lruList, timestamps, mu>>
svcVars == <<redisClient, redis, semaphore, req, finished, panicked, probe, gen>>
vars == <<maxSize, ttl, cache, lruList, timestamps, mu, now, call, recency,
          redisClient, redis, semaphore, req, finished, panicked, probe, gen>>

\* ------------------------------------------------------------ container/list
ListKeys(l) == {l[i].key : i \in 1..Len(l)}

ListRemove(l, k) == SelectSeq(l, LAMBDA e : e.key # k)

ListElement(l, k) == l[CHOOSE i \in 1..Len(l) : l[i].key = k]

ListMoveToBackInPlace(l, k) == l

ListMoveToBack(l, k) == ListRemove(l, k) \o <<ListElement(l, k)>>

MapDeleteNothing(m, k) == m

MapDelete(m, k) == [x \in DOMAIN m \ {k} |-> m[x]]

MapSet(m, k, v) == [x \in DOMAIN m \cup {k} |-> IF x = k THEN v ELSE m[x]]

EmptyMap == [x \in {} |-> 0]

\* ------------------------------------------------------------ TTLCache
\* ret names the return statement taken; evicted is the key of Put's `oldest`
\* and evictedAge the time since that key's timestamp (-1 when none was
\* removed); replaced is the value the key held before the Put (Nil when it
\* held none).
IdleCall == [op |-> "none", stage |-> "idle", key |-> "", value |-> Nil,
             found |-> FALSE, size |-> 0, ret |-> "", evicted |-> {},
             evictedAge |-> -1, replaced |-> Nil]

\* History of uses: only the keys in `present` remain in the cache.
Forget(r, present) == SelectSeq(r, LAMBDA x : x.key \in present)

\* History of uses: key k was just Put with value v at time at.
HistPut(r, present, k, at, v) ==
  SelectSeq(Forget(r, present), LAMBDA x : x.key # k)
    \o <<[key |-> k, putAt |-> at, putValue |-> v]>>

\* History of uses: key k was just hit by Get.
HistHit(r, present, k) ==
  SelectSeq(Forget(r, present), LAMBDA x : x.key # k)
    \o SelectSeq(r, LAMBDA x : x.key = k)

NewTTLCache(m, t) ==
  /\ maxSize = m
  /\ ttl = t
  /\ cache = {}
  /\ lruList = <<>>
  /\ timestamps = EmptyMap
  /\ mu = 0

LockWithoutMutex(t, op, k, v) ==
  /\ call[t].stage = "idle"
  /\ mu' = t
  /\ call' = [call EXCEPT ![t] =
               [IdleCall EXCEPT !.op = op, !.stage = "body", !.key = k, !.value = v]]
  /\ UNCHANGED <<maxSize, ttl, cache, lruList, timestamps, now, recency>>

\* A goroutine enters a cache method: c.mu.Lock() is the first statement of every
\* method, so the call starts when the mutex is free and holds it from then on.
Lock(t, op, k, v) ==
  /\ call[t].stage = "idle"
  /\ mu = 0
  /\ mu' = t
  /\ call' = [call EXCEPT ![t] =
               [IdleCall EXCEPT !.op = op, !.stage = "body", !.key = k, !.value = v]]
  /\ UNCHANGED <<maxSize, ttl, cache, lruList, timestamps, now, recency>>

\* defer c.mu.Unlock(): runs when the method returns to its caller.
Unlock(t) ==
  /\ call[t].stage = "unlock"
  /\ mu = t
  /\ mu' = 0
  /\ call' = [call EXCEPT ![t] = IdleCall]
  /\ UNCHANGED <<maxSize, ttl, cache, lruList, timestamps, now, recency>>

ExpiredAtTTL(k) == k \notin DOMAIN timestamps \/ now - timestamps[k] >= ttl

ExpiredOffByOne(k) == k \notin DOMAIN timestamps \/ now - timestamps[k] > ttl + 1

Expired(k) == k \notin DOMAIN timestamps \/ now - timestamps[k] > ttl

GetOpKeepingExpired(k) ==
  IF k \notin cache
  THEN [cache |-> cache, lruList |-> lruList, timestamps |-> timestamps,
        recency |-> recency, value |-> Nil, found |-> FALSE, ret |-> "absent"]
  ELSE IF Expired(k)
  THEN [cache |-> cache, lruList |-> lruList, timestamps |-> timestamps,
        recency |-> recency, value |-> Nil, found |-> FALSE, ret |-> "expired"]
  ELSE [cache |-> cache, lruList |-> ListMoveToBack(lruList, k),
        timestamps |-> timestamps,
        recency |-> HistHit(recency, ListKeys(ListMoveToBack(lruList, k)), k),
        value |-> ListElement(lruList, k).value, found |-> TRUE, ret |-> "hit"]

GetOpRefreshing(k) ==
  IF k \notin cache
  THEN [cache |-> cache, lruList |-> lruList, timestamps |-> timestamps,
        recency |-> recency, value |-> Nil, found |-> FALSE, ret |-> "absent"]
  ELSE IF Expired(k)
  THEN [cache |-> cache \ {k}, lruList |-> ListRemove(lruList, k),
        timestamps |-> MapDelete(timestamps, k),
        recency |-> Forget(recency, ListKeys(ListRemove(lruList, k))),
        value |-> Nil, found |-> FALSE, ret |-> "expired"]
  ELSE [cache |-> cache, lruList |-> ListMoveToBack(lruList, k),
        timestamps |-> MapSet(timestamps, k, now),
        recency |-> HistHit(recency, ListKeys(ListMoveToBack(lruList, k)), k),
        value |-> ListElement(lruList, k).value, found |-> TRUE, ret |-> "hit"]

GetOpReturningFront(k) ==
  IF k \notin cache
  THEN [cache |-> cache, lruList |-> lruList, timestamps |-> timestamps,
        recency |-> recency, value |-> Nil, found |-> FALSE, ret |-> "absent"]
  ELSE IF Expired(k)
  THEN [cache |-> cache \ {k}, lruList |-> ListRemove(lruList, k),
        timestamps |-> MapDelete(timestamps, k),
        recency |-> Forget(recency, ListKeys(ListRemove(lruList, k))),
        value |-> Nil, found |-> FALSE, ret |-> "expired"]
  ELSE [cache |-> cache, lruList |-> ListMoveToBack(lruList, k),
        timestamps |-> timestamps,
        recency |-> HistHit(recency, ListKeys(ListMoveToBack(lruList, k)), k),
        value |-> Head(lruList).value, found |-> TRUE, ret |-> "hit"]

\* The body of Get(key): the cache after it and what it returns.
GetOp(k) ==
  IF k \notin cache
  THEN [cache |-> cache, lruList |-> lruList, timestamps |-> timestamps,
        recency |-> recency, value |-> Nil, found |-> FALSE, ret |-> "absent"]
  ELSE IF Expired(k)
  THEN [cache |-> cache \ {k}, lruList |-> ListRemove(lruList, k),
        timestamps |-> MapDelete(timestamps, k),
        recency |-> Forget(recency, ListKeys(ListRemove(lruList, k))),
        value |-> Nil, found |-> FALSE, ret |-> "expired"]
  ELSE [cache |-> cache, lruList |-> ListMoveToBack(lruList, k),
        timestamps |-> timestamps,
        recency |-> HistHit(recency, ListKeys(ListMoveToBack(lruList, k)), k),
        value |-> ListElement(lruList, k).value, found |-> TRUE, ret |-> "hit"]

\* The method's effect on the fields of the TTLCache.
Becomes(res) ==
  /\ cache' = res.cache
  /\ lruList' = res.lruList
  /\ timestamps' = res.timestamps
  /\ recency' = res.recency

Get(t) ==
  /\ call[t].stage = "body" /\ call[t].op = "Get" /\ mu = t
  /\ LET res == GetOp(call[t].key) IN
     /\ Becomes(res)
     /\ call' = [call EXCEPT ![t].stage = "unlock", ![t].value = res.value,
                             ![t].found = res.found, ![t].ret = res.ret]
  /\ UNCHANGED <<maxSize, ttl, mu, now>>
  /\ UNCHANGED svcVars

OldestPreferringExpired(l) ==
  IF Len(l) >= maxSize /\ Len(l) > 0
  THEN IF \E i \in 1..Len(l) : now - timestamps[l[i].key] > ttl
       THEN {l[CHOOSE i \in 1..Len(l) : now - timestamps[l[i].key] > ttl].key}
       ELSE {Head(l).key}
  ELSE {}

OldestOffByOne(l) == IF Len(l) > maxSize /\ Len(l) > 0 THEN {Head(l).key} ELSE {}

\* The entry Put removes to make room: the front of the list, when the list is
\* at (or over) maxSize and has a front.
Oldest(l) == IF Len(l) >= maxSize /\ Len(l) > 0 THEN {Head(l).key} ELSE {}

PutOpKeepingValue(k, v) ==
  IF k \in cache
  THEN LET l == ListRemove(lruList, k) \o <<ListElement(lruList, k)>> IN
       [cache |-> cache, lruList |-> l, timestamps |-> MapSet(timestamps, k, now),
        recency |-> HistPut(recency, ListKeys(l), k, now, v),
        ret |-> "update", evicted |-> {}, evictedAge |-> -1,
        replaced |-> ListElement(lruList, k).value]
  ELSE LET old == Oldest(lruList)
           l == SelectSeq(lruList, LAMBDA e : e.key \notin old)
                  \o <<[key |-> k, value |-> v]>> IN
       [cache |-> (cache \ old) \cup {k}, lruList |-> l,
        timestamps |-> MapSet([x \in DOMAIN timestamps \ old |-> timestamps[x]], k, now),
        recency |-> HistPut(recency, ListKeys(l), k, now, v),
        ret |-> "insert", evicted |-> old,
        evictedAge |-> IF old = {} THEN -1
                       ELSE now - timestamps[CHOOSE x \in old : TRUE],
        replaced |-> Nil]

PutOpKeepingTimestamp(k, v) ==
  IF k \in cache
  THEN LET l == ListRemove(lruList, k) \o <<[key |-> k, value |-> v]>> IN
       [cache |-> cache, lruList |-> l, timestamps |-> timestamps,
        recency |-> HistPut(recency, ListKeys(l), k, now, v),
        ret |-> "update", evicted |-> {}, evictedAge |-> -1,
        replaced |-> ListElement(lruList, k).value]
  ELSE LET old == Oldest(lruList)
           l == SelectSeq(lruList, LAMBDA e : e.key \notin old)
                  \o <<[key |-> k, value |-> v]>> IN
       [cache |-> (cache \ old) \cup {k}, lruList |-> l,
        timestamps |-> MapSet([x \in DOMAIN timestamps \ old |-> timestamps[x]], k, now),
        recency |-> HistPut(recency, ListKeys(l), k, now, v),
        ret |-> "insert", evicted |-> old,
        evictedAge |-> IF old = {} THEN -1
                       ELSE now - timestamps[CHOOSE x \in old : TRUE],
        replaced |-> Nil]

PutOpDuplicating(k, v) ==
  LET old == Oldest(lruList)
      l == SelectSeq(lruList, LAMBDA e : e.key \notin old)
             \o <<[key |-> k, value |-> v]>> IN
  [cache |-> (cache \ old) \cup {k}, lruList |-> l,
   timestamps |-> MapSet([x \in DOMAIN timestamps \ old |-> timestamps[x]], k, now),
   recency |-> HistPut(recency, ListKeys(l), k, now, v),
   ret |-> "insert", evicted |-> old,
   evictedAge |-> IF old = {} THEN -1
                  ELSE now - timestamps[CHOOSE x \in old : TRUE],
        replaced |-> Nil]

\* The body of Put(key, value): the cache after it; evicted is the key of
\* `oldest`, when one was removed.
PutOp(k, v) ==
  IF k \in cache
  THEN LET l == ListRemove(lruList, k) \o <<[key |-> k, value |-> v]>> IN
       [cache |-> cache, lruList |-> l, timestamps |-> MapSet(timestamps, k, now),
        recency |-> HistPut(recency, ListKeys(l), k, now, v),
        ret |-> "update", evicted |-> {}, evictedAge |-> -1,
        replaced |-> ListElement(lruList, k).value]
  ELSE LET old == Oldest(lruList)
           l == SelectSeq(lruList, LAMBDA e : e.key \notin old)
                  \o <<[key |-> k, value |-> v]>> IN
       [cache |-> (cache \ old) \cup {k}, lruList |-> l,
        timestamps |-> MapSet([x \in DOMAIN timestamps \ old |-> timestamps[x]], k, now),
        recency |-> HistPut(recency, ListKeys(l), k, now, v),
        ret |-> "insert", evicted |-> old,
        evictedAge |-> IF old = {} THEN -1
                       ELSE now - timestamps[CHOOSE x \in old : TRUE],
        replaced |-> Nil]

Put(t) ==
  /\ call[t].stage = "body" /\ call[t].op = "Put" /\ mu = t
  /\ LET res == PutOp(call[t].key, call[t].value) IN
     /\ Becomes(res)
     /\ call' = [call EXCEPT ![t].stage = "unlock", ![t].ret = res.ret,
                             ![t].evicted = res.evicted,
                             ![t].evictedAge = res.evictedAge,
                             ![t].replaced = res.replaced]
  /\ UNCHANGED <<maxSize, ttl, mu, now>>
  /\ UNCHANGED svcVars

SizeOfFresh(t) ==
  /\ call[t].stage = "body" /\ call[t].op = "Size" /\ mu = t
  /\ call' = [call EXCEPT ![t].stage = "unlock",
                          ![t].size = Len(SelectSeq(lruList, LAMBDA e : ~Expired(e.key)))]
  /\ UNCHANGED <<maxSize, ttl, cache, lruList, timestamps, mu, now, recency>>
  /\ UNCHANGED svcVars

Size(t) ==
  /\ call[t].stage = "body" /\ call[t].op = "Size" /\ mu = t
  /\ call' = [call EXCEPT ![t].stage = "unlock", ![t].size = Len(lruList)]
  /\ UNCHANGED <<maxSize, ttl, cache, lruList, timestamps, mu, now, recency>>
  /\ UNCHANGED svcVars

ClearMapsOnly(t) ==
  /\ call[t].op = "Clear" /\ mu = t
  /\ \/ /\ call[t].stage = "body"
        /\ cache' = {}
        /\ call' = [call EXCEPT ![t].stage = "list"]
        /\ UNCHANGED <<lruList, timestamps, recency>>
     \/ /\ call[t].stage = "list"
        /\ call' = [call EXCEPT ![t].stage = "timestamps"]
        /\ UNCHANGED <<cache, lruList, timestamps, recency>>
     \/ /\ call[t].stage = "timestamps"
        /\ timestamps' = EmptyMap
        /\ call' = [call EXCEPT ![t].stage = "unlock"]
        /\ UNCHANGED <<cache, lruList, recency>>
  /\ UNCHANGED <<maxSize, ttl, mu, now>>
  /\ UNCHANGED svcVars

\* Clear replaces the three containers one statement at a time, holding the
\* mutex throughout.
Clear(t) ==
  /\ call[t].op = "Clear" /\ mu = t
  /\ \/ /\ call[t].stage = "body"
        /\ cache' = {}
        /\ call' = [call EXCEPT ![t].stage = "list"]
        /\ UNCHANGED <<lruList, timestamps, recency>>
     \/ /\ call[t].stage = "list"
        /\ lruList' = <<>>
        /\ recency' = <<>>
        /\ call' = [call EXCEPT ![t].stage = "timestamps"]
        /\ UNCHANGED <<cache, timestamps>>
     \/ /\ call[t].stage = "timestamps"
        /\ timestamps' = EmptyMap
        /\ call' = [call EXCEPT ![t].stage = "unlock"]
        /\ UNCHANGED <<cache, lruList, recency>>
  /\ UNCHANGED <<maxSize, ttl, mu, now>>
  /\ UNCHANGED svcVars

\* ------------------------------------------------------------ cache clients
\* A goroutine calls one of the four methods with arguments of its choice.
ClientCall(t) ==
  /\ \/ \E k \in CacheKeys : Lock(t, "Get", k, Nil)
     \/ \E k \in CacheKeys, v \in CacheValues : Lock(t, "Put", k, v)
     \/ Lock(t, "Size", "", Nil)
     \/ Lock(t, "Clear", "", Nil)
  /\ UNCHANGED svcVars

\* The method returns to the client.
ClientReturn(t) ==
  /\ Unlock(t)
  /\ UNCHANGED svcVars

Tick ==
  /\ now < MaxClock
  /\ now' = now + 1
  /\ UNCHANGED <<maxSize, ttl, cache, lruList, timestamps, mu, call, recency>>
  /\ UNCHANGED svcVars

CacheInit ==
  /\ \E m \in 0..MaxCapacity, d \in 0..MaxTTL : NewTTLCache(m, d)
  /\ now = 0
  /\ call = [t \in Procs |-> IdleCall]
  /\ recency = <<>>
  /\ redisClient = "nil"
  /\ redis = EmptyMap
  /\ semaphore = 0
  /\ req = [t \in Procs |-> [pc |-> "idle"]]
  /\ finished = 0
  /\ panicked = FALSE
  /\ probe = [pc |-> "idle"]
  /\ gen = [pc |-> "idle"]

CacheNext ==
  \/ \E t \in Procs : ClientCall(t)
  \/ \E t \in Procs : Get(t)
  \/ \E t \in Procs : Put(t)
  \/ \E t \in Procs : Size(t)
  \/ \E t \in Procs : Clear(t)
  \/ \E t \in Procs : ClientReturn(t)
  \/ Tick

CacheSpec == CacheInit /\ [][CacheNext]_vars

\* ------------------------------------------------------------ a sequential cache client
\* One goroutine calling the four methods one after the other with three keys
\* and two values, on a cache that holds two entries (so that a third key
\* evicts) or three (so that a key has two others beside it).
SeqCapacities == {2, 3}
SeqKeys == {"a", "b", "c"}
SeqValues == {[payload |-> 1], [payload |-> 2]}

SeqCall ==
  /\ \/ \E k \in SeqKeys : Lock(1, "Get", k, Nil)
     \/ \E k \in SeqKeys, v \in SeqValues : Lock(1, "Put", k, v)
     \/ Lock(1, "Size", "", Nil)
     \/ Lock(1, "Clear", "", Nil)
  /\ UNCHANGED svcVars

SeqInit ==
  /\ \E m \in SeqCapacities, d \in 0..MaxTTL : NewTTLCache(m, d)
  /\ now = 0
  /\ call = [t \in Procs |-> IdleCall]
  /\ recency = <<>>
  /\ redisClient = "nil"
  /\ redis = EmptyMap
  /\ semaphore = 0
  /\ req = [t \in Procs |-> [pc |-> "idle"]]
  /\ finished = 0
  /\ panicked = FALSE
  /\ probe = [pc |-> "idle"]
  /\ gen = [pc |-> "idle"]

SeqNext ==
  \/ SeqCall
  \/ Get(1)
  \/ Put(1)
  \/ Size(1)
  \/ Clear(1)
  \/ ClientReturn(1)
  \/ Tick

SeqSpec == SeqInit /\ [][SeqNext]_vars

\* ------------------------------------------------------------ registries
\* localizationDB: language -> key -> string (strings transliterated to ASCII).
localizationDB ==
  [l \in {"en", "es", "fr", "de"} |->
    IF l = "en" THEN
      [welcome_title |-> "Welcome to Our App",
       welcome_subtitle |-> "Your journey starts here",
       login_button |-> "Log In",
       signup_button |-> "Sign Up",
       navigation_home |-> "Home",
       navigation_about |-> "About",
       navigation_contact |-> "Contact",
       footer_copyright |-> "(c) 2024 Our Company. All rights reserved.",
       user_profile_title |-> "User Profile",
       user_profile_edit |-> "Edit Profile",
       settings_title |-> "Settings",
       settings_language |-> "Language",
       settings_theme |-> "Theme",
       error_404 |-> "Page not found",
       error_500 |-> "Internal server error"]
    ELSE IF l = "es" THEN
      [welcome_title |-> "Bienvenido a Nuestra App",
       welcome_subtitle |-> "Tu viaje comienza aqui",
       login_button |-> "Iniciar Sesion",
       signup_button |-> "Registrarse",
       navigation_home |-> "Inicio",
       navigation_about |-> "Acerca de",
       navigation_contact |-> "Contacto",
       footer_copyright |-> "(c) 2024 Nuestra Empresa. Todos los derechos reservados.",
       user_profile_title |-> "Perfil de Usuario",
       user_profile_edit |-> "Editar Perfil",
       settings_title |-> "Configuracion",
       settings_language |-> "Idioma",
       settings_theme |-> "Tema",
       error_404 |-> "Pagina no encontrada",
       error_500 |-> "Error interno del servidor"]
    ELSE IF l = "fr" THEN
      [welcome_title |-> "Bienvenue dans Notre App",
       welcome_subtitle |-> "Votre voyage commence ici",
       login_button |-> "Se Connecter",
       signup_button |-> "S'inscrire",
       navigation_home |-> "Accueil",
       navigation_about |-> "A Propos",
       navigation_contact |-> "Contact",
       footer_copyright |-> "(c) 2024 Notre Entreprise. Tous droits reserves.",
       user_profile_title |-> "Profil Utilisateur",
       user_profile_edit |-> "Modifier le Profil",
       settings_title |-> "Parametres",
       settings_language |-> "Langue",
       settings_theme |-> "Theme",
       error_404 |-> "Page non trouvee",
       error_500 |-> "Erreur interne du serveur"]
    ELSE
      [welcome_title |-> "Willkommen in Unserer App",
       welcome_subtitle |-> "Ihre Reise beginnt hier",
       login_button |-> "Anmelden",
       signup_button |-> "Registrieren",
       navigation_home |-> "Startseite",
       navigation_about |-> "Uber Uns",
       navigation_contact |-> "Kontakt",
       footer_copyright |-> "(c) 2024 Unser Unternehmen. Alle Rechte vorbehalten.",
       user_profile_title |-> "Benutzerprofil",
       user_profile_edit |-> "Profil Bearbeiten",
       settings_title |-> "Einstellungen",
       settings_language |-> "Sprache",
       settings_theme |-> "Design",
       error_404 |-> "Seite nicht gefunden",
       error_500 |-> "Interner Serverfehler"]]

\* A template is a sequence of pieces: [l10n |-> k] is the marker {l10n.k}, and
\* [text |-> n] is the n-th stretch of other text (JSX, {className}, ...).
Marker(k) == [l10n |-> k]
Text(n) == [text |-> n]

componentTemplates ==
  [c \in {"welcome", "navigation", "user_profile", "footer"} |->
    IF c = "welcome" THEN
      [ComponentName |-> "WelcomeComponent", ComponentType |-> "functional",
       Template |-> <<Text(1), Marker("welcome_title"), Text(2),
                      Marker("welcome_subtitle"), Text(3), Marker("login_button"),
                      Text(4), Marker("signup_button"), Text(5)>>,
       RequiredKeys |-> <<"welcome_title", "welcome_subtitle", "login_button",
                          "signup_button">>]
    ELSE IF c = "navigation" THEN
      [ComponentName |-> "NavigationComponent", ComponentType |-> "functional",
       Template |-> <<Text(1), Marker("navigation_home"), Text(2),
                      Marker("navigation_about"), Text(3),
                      Marker("navigation_contact"), Text(4)>>,
       RequiredKeys |-> <<"navigation_home", "navigation_about",
                          "navigation_contact">>]
    ELSE IF c = "user_profile" THEN
      [ComponentName |-> "UserProfileComponent", ComponentType |-> "functional",
       Template |-> <<Text(1), Marker("user_profile_title"), Text(2),
                      Marker("user_profile_edit"), Text(3)>>,
       RequiredKeys |-> <<"user_profile_title", "user_profile_edit">>]
    ELSE
      [ComponentName |-> "FooterComponent", ComponentType |-> "functional",
       Template |-> <<Text(1), Marker("footer_copyright"), Text(2)>>,
       RequiredKeys |-> <<"footer_copyright">>]]

SeqRange(q) == {q[i] : i \in 1..Len(q)}

\* ------------------------------------------------------------ generator
\* fmt.Sprintf(`"%s"`, value) and fmt.Sprintf("[%s]", key)
Quoted(v) == [quoted |-> v]
Bracketed(k) == [bracketed |-> k]

\* The keys of localizationDB spelled with a character outside [a-zA-Z_].
KeysWithDigits == {"error_404", "error_500"}

\* l10nPattern = \{l10n\.([a-zA-Z_]+)\} matches the marker of key k.
l10nPattern(k) == k \notin KeysWithDigits

\* l10nPattern.ReplaceAllStringFunc: every marker the pattern matches and whose
\* key is in localizedData becomes the quoted value; everything else is kept.
interpolateTemplate(template, localizedData) ==
  [i \in 1..Len(template) |->
    IF "l10n" \in DOMAIN template[i] /\ l10nPattern(template[i].l10n)
       /\ template[i].l10n \in DOMAIN localizedData
    THEN Quoted(localizedData[template[i].l10n])
    ELSE template[i]]

ResolveLangRequested(lang) == lang

\* actualLang: lang, or "en" when localizationDB has no table for lang.
ResolveLang(lang) == IF lang \in DOMAIN localizationDB THEN lang ELSE "en"

\* strings: the table of lang, or the table of "en" when there is none.
LookupStrings(lang) ==
  IF lang \in DOMAIN localizationDB THEN localizationDB[lang] ELSE localizationDB["en"]

\* The error of getLocalizedComponent, or "" (nil).
GenerateError(componentType) ==
  IF componentType \in DOMAIN componentTemplates THEN "" ELSE "not found"

LocalizedOmittingMissing(requiredKeys, strings) ==
  [k \in SeqRange(requiredKeys) \cap DOMAIN strings |-> strings[k]]

\* componentStrings: the value of every required key, or the bracketed key when
\* the table has none.
Localized(requiredKeys, strings) ==
  [k \in SeqRange(requiredKeys) |->
    IF k \in DOMAIN strings THEN strings[k] ELSE Bracketed(k)]

NewComponentStamped(componentType, template, actualLang, strings, at) ==
  LET componentStrings == Localized(template.RequiredKeys, strings)
  IN [ComponentName |-> template.ComponentName,
      ComponentType |-> template.ComponentType,
      Language |-> actualLang,
      Template |-> interpolateTemplate(template.Template, componentStrings)
                     \o <<Text(at)>>,
      LocalizedData |-> componentStrings,
      Metadata |-> [ComponentID |-> <<componentType, actualLang, at % IdModulus>>,
                    LastUpdated |-> at \div 1000,
                    RequiredKeys |-> template.RequiredKeys],
      Cached |-> FALSE]

\* The component getLocalizedComponent builds at time `at` from a template and
\* the table `strings` of the language actualLang.
NewComponent(componentType, template, actualLang, strings, at) ==
  LET componentStrings == Localized(template.RequiredKeys, strings)
  IN [ComponentName |-> template.ComponentName,
      ComponentType |-> template.ComponentType,
      Language |-> actualLang,
      Template |-> interpolateTemplate(template.Template, componentStrings),
      LocalizedData |-> componentStrings,
      Metadata |-> [ComponentID |-> <<componentType, actualLang, at % IdModulus>>,
                    LastUpdated |-> at \div 1000,
                    RequiredKeys |-> template.RequiredKeys],
      Cached |-> FALSE]

\* getLocalizedComponent(componentType, lang) at time `at`, for a registered
\* componentType.
getLocalizedComponent(componentType, lang, at) ==
  NewComponent(componentType, componentTemplates[componentType],
               ResolveLang(lang), LookupStrings(lang), at)

IdleGen == [pc |-> "idle"]

\* ------------------------------------------------------------ generator callers
\* getLocalizedComponent called while the tables of localizationDB lack the keys
\* in `missing`.
GenLanguages == {"en", "es", "zh"}

Without(strings, missing) == [k \in DOMAIN strings \ missing |-> strings[k]]

GenCall ==
  /\ gen.pc = "idle"
  /\ \E c \in DOMAIN componentTemplates, l \in GenLanguages :
       \E missing \in SUBSET SeqRange(componentTemplates[c].RequiredKeys) :
         /\ Cardinality(missing) <= MaxMissing
         /\ gen' = [pc |-> "call", componentType |-> c, lang |-> l,
                    missing |-> missing, component |-> Nil]
  /\ UNCHANGED <<cacheVars, now, call, recency, redisClient, redis, semaphore, req,
                 finished, panicked, probe>>

GenReturn ==
  /\ gen.pc = "call"
  /\ gen' = [gen EXCEPT
       !.pc = "return",
       !.component = NewComponent(gen.componentType,
                                  componentTemplates[gen.componentType],
                                  ResolveLang(gen.lang),
                                  Without(LookupStrings(gen.lang), gen.missing),
                                  now)]
  /\ UNCHANGED <<cacheVars, now, call, recency, redisClient, redis, semaphore, req,
                 finished, panicked, probe>>

GenDone ==
  /\ gen.pc = "return"
  /\ gen' = IdleGen
  /\ UNCHANGED <<cacheVars, now, call, recency, redisClient, redis, semaphore, req,
                 finished, panicked, probe>>

\* ------------------------------------------------------------ interpolation callers
\* interpolateTemplate called on templates of up to MaxPieces pieces and on
\* maps that hold some of the keys.
InterpKeys == {"welcome_title", "error_404"}

InterpPieces == {Text(1)} \cup {Marker(k) : k \in InterpKeys}

InterpTemplates == UNION {[1..n -> InterpPieces] : n \in 0..MaxPieces}

InterpValues == {[k \in ks |-> localizationDB["en"][k]] : ks \in SUBSET InterpKeys}

InterpCall ==
  /\ gen.pc = "idle"
  /\ \E t \in InterpTemplates, d \in InterpValues :
       gen' = [pc |-> "interpolate", template |-> t, localizedData |-> d,
               result |-> <<>>]
  /\ UNCHANGED <<cacheVars, now, call, recency, redisClient, redis, semaphore, req,
                 finished, panicked, probe>>

InterpReturn ==
  /\ gen.pc = "interpolate"
  /\ gen' = [gen EXCEPT !.pc = "interpolated",
                        !.result = interpolateTemplate(gen.template, gen.localizedData)]
  /\ UNCHANGED <<cacheVars, now, call, recency, redisClient, redis, semaphore, req,
                 finished, panicked, probe>>

InterpDone ==
  /\ gen.pc = "interpolated"
  /\ gen' = IdleGen
  /\ UNCHANGED <<cacheVars, now, call, recency, redisClient, redis, semaphore, req,
                 finished, panicked, probe>>

\* ------------------------------------------------------------ Redis tier
\* json.Marshal of a LocalizedComponent: `cached` carries omitempty, so the field
\* is written only when true.
Marshal(component) ==
  [fields |-> [component EXCEPT !.Cached = FALSE],
   cached |-> IF component.Cached THEN <<TRUE>> ELSE <<>>]

\* json.Unmarshal into a zero LocalizedComponent.
Unmarshal(data) == [data.fields EXCEPT !.Cached = (data.cached # <<>>)]

\* Keys the Redis server still holds at time `at`.
RedisLive(store, at) == {k \in DOMAIN store : store[k].expireAt > at}

RedisPurge(store, at) == [k \in RedisLive(store, at) |-> store[k]]

\* ------------------------------------------------------------ HTTP service
\* The requests clients send: <<component_type, lang>>.
Requests ==
  {<<"welcome", "en">>, <<"welcome", "es">>, <<"welcome", "zh">>,
   <<"welcome", "ja">>, <<"nonexistent", "ja">>}

IdleReq == [pc |-> "idle"]

IdleProbe == [pc |-> "idle"]

\* hit names the tier that served the request from cache; ops logs the Redis
\* operations the request issued; late holds the fields of the component the
\* request wrote after it had put that component in componentCache; cancelled
\* is the step at which the client gave up, if it did.
NewReq(componentType, lang) ==
  [pc |-> "start", componentType |-> componentType, lang |-> lang,
   cacheKey |-> <<>>, component |-> Nil, hit |-> "", ops |-> <<>>,
   status |-> 0, body |-> Nil, late |-> {}, cancelled |-> ""]

\* fmt.Sprintf("component:%s:%s", componentType, actualLang) with the handler's
\* own normalisation of the language.
CacheKeyRequested(componentType, lang) == <<"component", componentType, lang>>

CacheKey(componentType, lang) ==
  <<"component", componentType, IF lang \in DOMAIN localizationDB THEN lang ELSE "en">>

\* c.JSON(status, body)
Respond(r, status, body) == [r EXCEPT !.pc = "done", !.status = status, !.body = body]

TokenFreeWhileWaiting ==
  semaphore - Cardinality({r \in Procs : req[r].pc \in {"fetch", "expire", "set"}})
    < ConcurrencyLimit

TokenFreeOffByOne == semaphore <= ConcurrencyLimit

\* `case semaphore <- struct{}{}` can proceed: the channel, whose capacity is the
\* limit, is not full.
TokenFree == semaphore < ConcurrencyLimit

RejectedAsNotFound ==
  [pc |-> "aborted", status |-> 404,
   body |-> [error |-> "server is at capacity, please try again later"]]

\* The default case: 503 and c.Abort(); the handler is not run.
Rejected ==
  [pc |-> "aborted", status |-> 503,
   body |-> [error |-> "server is at capacity, please try again later"]]

\* ConcurrencyLimiter: the select on the buffered channel. Goroutines are
\* interchangeable, so a request is served by the lowest free one.
Enter(r) ==
  /\ req[r].pc = "idle"
  /\ \A q \in Procs : q < r => req[q].pc # "idle"
  /\ IF TokenFree
     THEN /\ finished < MaxFinished
          /\ semaphore' = semaphore + 1
          /\ UNCHANGED finished
          /\ \E q \in Requests :
               req' = [req EXCEPT ![r] = NewReq(q[1], q[2])]
     ELSE /\ req' = [req EXCEPT ![r] = Rejected]
          /\ UNCHANGED <<semaphore, finished>>
  /\ UNCHANGED <<cacheVars, now, call, recency, redisClient, redis, panicked, probe, gen>>

\* The rejected request returns without running the handler.
Abort(r) ==
  /\ req[r].pc = "aborted"
  /\ req' = [req EXCEPT ![r] = IdleReq]
  /\ UNCHANGED <<cacheVars, now, call, recency, redisClient, redis, semaphore, finished, panicked, probe, gen>>

LeaveUnlessPanicked(r) ==
  /\ req[r].pc = "done"
  /\ semaphore' = IF req[r].status = 500 THEN semaphore ELSE semaphore - 1
  /\ req' = [req EXCEPT ![r] = IdleReq]
  /\ finished' = finished + 1
  /\ UNCHANGED <<cacheVars, now, call, recency, redisClient, redis, panicked, probe, gen>>

\* defer func() { <-semaphore }(): runs when c.Next() returns or panics.
Leave(r) ==
  /\ req[r].pc = "done"
  /\ semaphore' = semaphore - 1
  /\ req' = [req EXCEPT ![r] = IdleReq]
  /\ finished' = finished + 1
  /\ UNCHANGED <<cacheVars, now, call, recency, redisClient, redis, panicked, probe, gen>>

RedisEnabledAlways == TRUE

\* `if redisClient != nil`: the handler talks to Redis only when main() kept
\* the client.
RedisEnabled == redisClient # "nil"

LocalGetRefreshing(r) ==
  /\ req[r].pc = "start"
  /\ mu = 0
  /\ LET key == CacheKey(req[r].componentType, req[r].lang)
         res == GetOp(key) IN
     /\ Becomes(res)
     /\ req' = [req EXCEPT ![r] =
          IF res.found
          THEN Respond([req[r] EXCEPT !.cacheKey = key, !.hit = "local",
                                      !.ops = <<<<"Expire", "ok">>>>],
                       200, [res.value EXCEPT !.Cached = TRUE])
          ELSE [req[r] EXCEPT !.cacheKey = key,
                              !.pc = IF RedisEnabled THEN "fetch" ELSE "generate"]]
  /\ UNCHANGED <<maxSize, ttl, mu, now, call, redisClient, redis, semaphore, finished, panicked, probe, gen>>

LocalGetSkippingRedis(r) ==
  /\ req[r].pc = "start"
  /\ mu = 0
  /\ LET key == CacheKey(req[r].componentType, req[r].lang)
         res == GetOp(key) IN
     /\ Becomes(res)
     /\ req' = [req EXCEPT ![r] =
          IF res.found
          THEN Respond([req[r] EXCEPT !.cacheKey = key, !.hit = "local"],
                       200, [res.value EXCEPT !.Cached = TRUE])
          ELSE [req[r] EXCEPT !.cacheKey = key, !.pc = "generate"]]
  /\ UNCHANGED <<maxSize, ttl, mu, now, call, redisClient, redis, semaphore, finished, panicked, probe, gen>>

\* getLocalizedComponentEndpoint: cache key, then componentCache.Get(cacheKey).
\* A hit answers at once; a miss goes on to Redis when there is a client, else
\* to generation.
LocalGet(r) ==
  /\ req[r].pc = "start"
  /\ mu = 0
  /\ LET key == CacheKey(req[r].componentType, req[r].lang)
         res == GetOp(key) IN
     /\ Becomes(res)
     /\ req' = [req EXCEPT ![r] =
          IF res.found
          THEN Respond([req[r] EXCEPT !.cacheKey = key, !.hit = "local"],
                       200, [res.value EXCEPT !.Cached = TRUE])
          ELSE [req[r] EXCEPT !.cacheKey = key,
                              !.pc = IF RedisEnabled THEN "fetch" ELSE "generate"]]
  /\ UNCHANGED <<maxSize, ttl, mu, now, call, redisClient, redis, semaphore, finished, panicked, probe, gen>>

FetchFailedSurfaced(q) ==
  [q EXCEPT !.pc = "done", !.status = 500, !.body = [error |-> "redis"],
            !.ops = Append(@, <<"Get", "error">>)]

\* err != nil from getFromRedis: fall through to generation.
FetchFailed(q) == [q EXCEPT !.pc = "generate", !.ops = Append(@, <<"Get", "error">>)]

FetchWithoutDeadline(r) ==
  /\ req[r].pc = "fetch"
  /\ LET key == req[r].cacheKey IN
     /\ key \in RedisLive(redis, now)
     /\ req' = [req EXCEPT ![r].pc = "populate",
                           ![r].component = Unmarshal(redis[key].data),
                           ![r].hit = "redis",
                           ![r].ops = Append(@, <<"Get", "ok">>)]
  /\ UNCHANGED <<cacheVars, now, call, recency, redisClient, redis, semaphore, finished, panicked, probe, gen>>

\* getFromRedis(cacheKey): the entry, or an error. The handler sees only
\* err != nil, whatever the cause: the key is absent (redis.Nil), the server is
\* unreachable or times out, or the payload does not unmarshal.
Fetch(r) ==
  /\ req[r].pc = "fetch"
  /\ LET key == req[r].cacheKey IN
     \/ /\ key \in RedisLive(redis, now)
        /\ req' = [req EXCEPT ![r].pc = "populate",
                              ![r].component = Unmarshal(redis[key].data),
                              ![r].hit = "redis",
                              ![r].ops = Append(@, <<"Get", "ok">>)]
     \/ /\ key \notin RedisLive(redis, now)
        /\ req' = [req EXCEPT ![r] = FetchFailed(req[r])]
     \/ /\ key \in RedisLive(redis, now)
        /\ req' = [req EXCEPT ![r] = FetchFailed(req[r])]
  /\ UNCHANGED <<cacheVars, now, call, recency, redisClient, redis, semaphore, finished, panicked, probe, gen>>

PopulateUnderRequestedKey(r) ==
  /\ req[r].pc = "populate"
  /\ mu = 0
  /\ Becomes(PutOp(CacheKeyRequested(req[r].componentType, req[r].lang),
                   req[r].component))
  /\ req' = [req EXCEPT ![r].pc = "expire"]
  /\ UNCHANGED <<maxSize, ttl, mu, now, call, redisClient, redis, semaphore, finished, panicked, probe, gen>>

PopulateHoldingLock(r) ==
  /\ req[r].pc = "populate"
  /\ mu = 0
  /\ mu' = r
  /\ Becomes(PutOp(req[r].cacheKey, req[r].component))
  /\ req' = [req EXCEPT ![r].pc = "expire"]
  /\ UNCHANGED <<maxSize, ttl, now, call, redisClient, redis, semaphore, finished, panicked, probe, gen>>

\* Found in Redis: componentCache.Put(cacheKey, component).
Populate(r) ==
  /\ req[r].pc = "populate"
  /\ mu = 0
  /\ Becomes(PutOp(req[r].cacheKey, req[r].component))
  /\ req' = [req EXCEPT ![r].pc = "expire"]
  /\ UNCHANGED <<maxSize, ttl, mu, now, call, redisClient, redis, semaphore, finished, panicked, probe, gen>>

ExpireResending(r) ==
  /\ req[r].pc = "expire"
  /\ LET key == req[r].cacheKey
         response == [req[r].component EXCEPT !.Cached = TRUE] IN
     \/ /\ redis' = MapSet(redis, key, [data |-> Marshal(response),
                                        expireAt |-> now + RedisTTL])
        /\ req' = [req EXCEPT ![r] =
                     Respond([req[r] EXCEPT !.ops = Append(@, <<"Set", "ok">>)],
                             200, response)]
     \/ /\ UNCHANGED redis
        /\ req' = [req EXCEPT ![r] =
                     Respond([req[r] EXCEPT !.ops = Append(@, <<"Set", "error">>)],
                             200, response)]
  /\ UNCHANGED <<cacheVars, now, call, recency, redisClient, semaphore, finished, panicked, probe, gen>>

\* redisClient.Expire(ctx, cacheKey, RedisTTL), then the cached response.
Expire(r) ==
  /\ req[r].pc = "expire"
  /\ LET key == req[r].cacheKey
         response == [req[r].component EXCEPT !.Cached = TRUE] IN
     \/ /\ redis' = IF key \in RedisLive(redis, now)
                    THEN [redis EXCEPT ![key].expireAt = now + RedisTTL]
                    ELSE redis
        /\ req' = [req EXCEPT ![r] =
                     Respond([req[r] EXCEPT !.ops = Append(@, <<"Expire", "ok">>)],
                             200, response)]
     \/ /\ UNCHANGED redis
        /\ req' = [req EXCEPT ![r] =
                     Respond([req[r] EXCEPT !.ops = Append(@, <<"Expire", "error">>)],
                             200, response)]
  /\ UNCHANGED <<cacheVars, now, call, recency, redisClient, semaphore, finished, panicked, probe, gen>>

GenerateWithoutList(r) ==
  /\ req[r].pc = "generate"
  /\ req' = [req EXCEPT ![r] =
       IF GenerateError(req[r].componentType) # ""
       THEN Respond(req[r], 404,
                    [error |-> GenerateError(req[r].componentType),
                     available_components |-> {}])
       ELSE [req[r] EXCEPT
               !.pc = "store",
               !.component = getLocalizedComponent(req[r].componentType, req[r].lang, now)]]
  /\ UNCHANGED <<cacheVars, now, call, recency, redisClient, redis, semaphore, finished, panicked, probe, gen>>

\* Both caches missed: getLocalizedComponent(componentType, lang).
Generate(r) ==
  /\ req[r].pc = "generate"
  /\ req' = [req EXCEPT ![r] =
       IF GenerateError(req[r].componentType) # ""
       THEN Respond(req[r], 404,
                    [error |-> GenerateError(req[r].componentType),
                     available_components |-> DOMAIN componentTemplates])
       ELSE [req[r] EXCEPT
               !.pc = "store",
               !.component = getLocalizedComponent(req[r].componentType, req[r].lang, now)]]
  /\ UNCHANGED <<cacheVars, now, call, recency, redisClient, redis, semaphore, finished, panicked, probe, gen>>

StoreLocalSkipped(r) ==
  /\ req[r].pc = "store"
  /\ mu = 0
  /\ req' = [req EXCEPT ![r] =
       IF RedisEnabled
       THEN [req[r] EXCEPT !.pc = "set"]
       ELSE Respond(req[r], 200, [req[r].component EXCEPT !.Cached = FALSE])]
  /\ UNCHANGED <<cacheVars, recency, now, call, redisClient, redis, semaphore, finished, panicked, probe, gen>>

\* Store in both caches: componentCache.Put(cacheKey, component) first; without
\* a Redis client the handler answers right after it.
StoreLocal(r) ==
  /\ req[r].pc = "store"
  /\ mu = 0
  /\ Becomes(PutOp(req[r].cacheKey, req[r].component))
  /\ req' = [req EXCEPT ![r] =
       IF RedisEnabled
       THEN [req[r] EXCEPT !.pc = "set"]
       ELSE Respond([req[r] EXCEPT !.late = {"Cached"}],
                    200, [req[r].component EXCEPT !.Cached = FALSE])]
  /\ UNCHANGED <<maxSize, ttl, mu, now, call, redisClient, redis, semaphore, finished, panicked, probe, gen>>

StoredSurfaced(q, result) ==
  IF result = "ok"
  THEN Respond([q EXCEPT !.ops = Append(@, <<"Set", result>>)],
               200, [q.component EXCEPT !.Cached = FALSE])
  ELSE Respond([q EXCEPT !.ops = Append(@, <<"Set", result>>)],
               500, [error |-> "redis"])

\* After setInRedis, whose error is only logged: component.Cached = false, on
\* the component that componentCache holds, and c.JSON(http.StatusOK, component).
Stored(q, result) ==
  Respond([q EXCEPT !.ops = Append(@, <<"Set", result>>), !.late = {"Cached"}],
          200, [q.component EXCEPT !.Cached = FALSE])

SetInRedisRetrying(r) ==
  /\ req[r].pc = "set"
  /\ \/ /\ redis' = MapSet(redis, req[r].cacheKey,
                           [data |-> Marshal(req[r].component),
                            expireAt |-> now + RedisTTL])
        /\ req' = [req EXCEPT ![r] = Stored(req[r], "ok")]
     \/ /\ UNCHANGED redis
        /\ req' = [req EXCEPT ![r] =
             Stored([req[r] EXCEPT !.ops = Append(@, <<"Set", "error">>)], "error")]
  /\ UNCHANGED <<cacheVars, now, call, recency, redisClient, semaphore, finished, panicked, probe, gen>>

\* setInRedis(cacheKey, component), then the response.
SetInRedis(r) ==
  /\ req[r].pc = "set"
  /\ \/ /\ redis' = MapSet(redis, req[r].cacheKey,
                           [data |-> Marshal(req[r].component),
                            expireAt |-> now + RedisTTL])
        /\ req' = [req EXCEPT ![r] = Stored(req[r], "ok")]
     \/ /\ UNCHANGED redis
        /\ req' = [req EXCEPT ![r] = Stored(req[r], "error")]
  /\ UNCHANGED <<cacheVars, now, call, recency, redisClient, semaphore, finished, panicked, probe, gen>>

\* The request is inside a Redis call, whose context ends after RedisTimeout.
InRedisCall(r) == req[r].pc \in {"fetch", "expire", "set"}

\* The client of request r disconnects or times out while the handler is in a
\* Redis call. The handler's Redis contexts derive from context.Background(),
\* not from the request, so nothing in the handler sees it.
Cancel(r) ==
  /\ InRedisCall(r)
  /\ req[r].cancelled = ""
  /\ req' = [req EXCEPT ![r].cancelled = req[r].pc]
  /\ UNCHANGED <<cacheVars, now, call, recency, redisClient, redis, semaphore, finished, panicked, probe, gen>>

\* A panic in the handler unwinds through the limiter's deferred release;
\* gin.Default()'s Recovery answers 500.
Panic(r) ==
  /\ req[r].pc \in {"start", "fetch", "populate", "expire", "generate", "store", "set"}
  /\ req' = [req EXCEPT ![r] = [pc |-> "done", status |-> 500, body |-> Nil]]
  /\ panicked' = TRUE
  /\ UNCHANGED <<cacheVars, now, call, recency, redisClient, redis, semaphore, finished, probe, gen>>

\* Time passes; the Redis server drops the entries whose lifetime has ended.
\* A Redis call in progress returns before its deadline, so time does not
\* pass by more than RedisTimeout during one.
TickSteps == {CacheTTL + 1}

Ticks(at) == (at \div (CacheTTL + 1)) + (at % (CacheTTL + 1))

Advance ==
  /\ Ticks(now) < MaxTicks
  /\ \E d \in TickSteps :
       /\ \A r \in Procs : InRedisCall(r) => d <= RedisTimeout
       /\ probe.pc = "ping" => d <= RedisTimeout
       /\ now' = now + d
       /\ redis' = RedisPurge(redis, now + d)
  /\ UNCHANGED <<cacheVars, call, recency, redisClient, semaphore, req, finished, panicked, probe, gen>>

\* c.JSON(http.StatusOK, gin.H{...}) of healthCheck.
Healthy(redisStatus) ==
  [pc |-> "done", status |-> 200,
   body |-> [status |-> "healthy", cache_size |-> Len(lruList),
             concurrency_limit |-> ConcurrencyLimit, redis_status |-> redisStatus]]

HealthCheckBehindLimiter ==
  /\ probe.pc = "idle"
  /\ IF TokenFree
     THEN probe' = [pc |-> IF redisClient # "nil" THEN "ping" ELSE "size",
                    redisStatus |-> "disconnected"]
     ELSE probe' = [pc |-> "done", status |-> 503,
                    body |-> [error |-> "server is at capacity, please try again later"]]
  /\ UNCHANGED <<cacheVars, now, call, recency, redisClient, redis, semaphore, req,
                 finished, panicked, gen>>

\* GET /health, routed outside the /api group and its limiter: redisStatus
\* starts as "disconnected"; with a client the handler sends Ping and waits for
\* the reply, without one it goes on to componentCache.Size(). It holds no lock.
HealthCheck ==
  /\ probe.pc = "idle"
  /\ probe' = [pc |-> IF redisClient # "nil" THEN "ping" ELSE "size",
               redisStatus |-> "disconnected"]
  /\ UNCHANGED <<cacheVars, now, call, recency, redisClient, redis, semaphore, req,
                 finished, panicked, gen>>

\* redisClient.Ping(ctx).Err() returns: nil sets "connected"; an error or the
\* RedisTimeout deadline leaves "disconnected".
HealthPing ==
  /\ probe.pc = "ping"
  /\ \E status \in {"connected", "disconnected"} :
       probe' = [probe EXCEPT !.pc = "size", !.redisStatus = status]
  /\ UNCHANGED <<cacheVars, now, call, recency, redisClient, redis, semaphore, req,
                 finished, panicked, gen>>

\* componentCache.Size(), which takes the cache mutex, and the answer.
HealthSize ==
  /\ probe.pc = "size"
  /\ mu = 0
  /\ probe' = Healthy(probe.redisStatus)
  /\ UNCHANGED <<cacheVars, now, call, recency, redisClient, redis, semaphore, req,
                 finished, panicked, gen>>

\* The probe has its answer; the next one may come.
HealthReturn ==
  /\ probe.pc = "done"
  /\ probe' = IdleProbe
  /\ UNCHANGED <<cacheVars, now, call, recency, redisClient, redis, semaphore, req,
                 finished, panicked, gen>>

\* main(): the cache, and the Redis client unless the first Ping fails.
Init ==
  /\ NewTTLCache(CacheMaxSize, CacheTTL)
  /\ now = 0
  /\ call = [t \in Procs |-> IdleCall]
  /\ recency = <<>>
  /\ redisClient \in {"nil", "client"}
  /\ redis = EmptyMap
  /\ semaphore = 0
  /\ req = [t \in Procs |-> IdleReq]
  /\ finished = 0
  /\ panicked = FALSE
  /\ probe = IdleProbe
  /\ gen = IdleGen

Next ==
  \/ \E r \in Procs : Enter(r)
  \/ \E r \in Procs : Abort(r)
  \/ \E r \in Procs : LocalGet(r)
  \/ \E r \in Procs : Fetch(r)
  \/ \E r \in Procs : Populate(r)
  \/ \E r \in Procs : Expire(r)
  \/ \E r \in Procs : Generate(r)
  \/ \E r \in Procs : StoreLocal(r)
  \/ \E r \in Procs : SetInRedis(r)
  \/ \E r \in Procs : Leave(r)
  \/ Advance

Spec == Init /\ [][Next]_vars

\* ------------------------------------------------------------ requests one at a time
\* A client that sends its requests one after the other, each after the answer
\* to the one before; two more of them are admitted than in Spec.
EnterAlone ==
  /\ \A q \in Procs : req[q].pc = "idle"
  /\ TokenFree
  /\ finished < MaxFinished + 2
  /\ semaphore' = semaphore + 1
  /\ \E q \in Requests : req' = [req EXCEPT ![1] = NewReq(q[1], q[2])]
  /\ UNCHANGED <<cacheVars, now, call, recency, redisClient, redis, finished, panicked, probe, gen>>

\* Time passes to the next instant at which the client looks: an entry Put at
\* 0 is then read at an age below, at and above CacheTTL.
AgeInstants == {0, CacheTTL, CacheTTL + 1}

Age ==
  /\ \E at \in AgeInstants :
       /\ at > now
       /\ \A r \in Procs : InRedisCall(r) => at - now <= RedisTimeout
       /\ now' = at
       /\ redis' = RedisPurge(redis, at)
  /\ UNCHANGED <<cacheVars, call, recency, redisClient, semaphore, req, finished, panicked, probe, gen>>

SerialNext ==
  \/ EnterAlone
  \/ \E r \in Procs : LocalGet(r)
  \/ \E r \in Procs : Fetch(r)
  \/ \E r \in Procs : Populate(r)
  \/ \E r \in Procs : Expire(r)
  \/ \E r \in Procs : Generate(r)
  \/ \E r \in Procs : StoreLocal(r)
  \/ \E r \in Procs : SetInRedis(r)
  \/ \E r \in Procs : Leave(r)
  \/ Age

SerialSpec == Init /\ [][SerialNext]_vars

\* The service when handlers may panic.
PanicNext ==
  \/ Next
  \/ \E r \in Procs : Panic(r)

PanicSpec == Init /\ [][PanicNext]_vars

\* The service when clients may give up on their requests.
CancelNext ==
  \/ Next
  \/ \E r \in Procs : Cancel(r)

CancelSpec == Init /\ [][CancelNext]_vars

\* A step of the handler goroutine of request r, up to its return through the
\* limiter.
HandlerStep(r) ==
  \/ LocalGet(r)
  \/ Fetch(r)
  \/ Populate(r)
  \/ Expire(r)
  \/ Generate(r)
  \/ StoreLocal(r)
  \/ SetInRedis(r)
  \/ Leave(r)

\* The requests alone, at one instant of the clock: no handler step waits for
\* the clock, since a Redis call that got no answer returns its deadline error.
RequestNext ==
  \/ \E r \in Procs : Enter(r)
  \/ \E r \in Procs : Abort(r)
  \/ \E r \in Procs : LocalGet(r)
  \/ \E r \in Procs : Fetch(r)
  \/ \E r \in Procs : Populate(r)
  \/ \E r \in Procs : Expire(r)
  \/ \E r \in Procs : Generate(r)
  \/ \E r \in Procs : StoreLocal(r)
  \/ \E r \in Procs : SetInRedis(r)
  \/ \E r \in Procs : Leave(r)

\* The service with goroutines that keep running: the scheduler runs every
\* handler that can take a step, and a Redis call returns by its deadline.
LiveSpec == Init /\ [][RequestNext]_vars /\ \A r \in Procs : WF_vars(HandlerStep(r))

\* The generator alone, called on incomplete tables.
GenNext ==
  \/ GenCall
  \/ GenReturn
  \/ GenDone

GenSpec == Init /\ [][GenNext]_vars

\* interpolateTemplate alone.
InterpNext ==
  \/ InterpCall
  \/ InterpReturn
  \/ InterpDone

InterpSpec == Init /\ [][InterpNext]_vars

\* The service with its health route. healthCheck reads no clock, so time
\* stands still here.
HealthNext ==
  \/ \E r \in Procs : Enter(r)
  \/ \E r \in Procs : Abort(r)
  \/ \E r \in Procs : LocalGet(r)
  \/ \E r \in Procs : Fetch(r)
  \/ \E r \in Procs : Populate(r)
  \/ \E r \in Procs : Expire(r)
  \/ \E r \in Procs : Generate(r)
  \/ \E r \in Procs : StoreLocal(r)
  \/ \E r \in Procs : SetInRedis(r)
  \/ \E r \in Procs : Leave(r)
  \/ HealthCheck
  \/ HealthPing
  \/ HealthSize
  \/ HealthReturn

HealthSpec == Init /\ [][HealthNext]_vars


\* ------------------------------------------------------------ claims: TTLCache
HistKeys == [i \in 1..Len(recency) |-> recency[i].key]

LastPut(k) == recency[CHOOSE i \in 1..Len(recency) : recency[i].key = k].putAt

\* C1: for a cache of capacity N >= 1 the number of entries, which is what
\* Size() returns, never exceeds N.
C1_SizeWithinCapacity ==
  maxSize >= 1 =>
    /\ Len(lruList) <= maxSize
    /\ \A t \in Procs :
         call[t].op = "Size" /\ call[t].stage = "unlock" => call[t].size <= maxSize

\* C1 witness: a Put of a new key into a full cache of the largest capacity has
\* evicted an entry and left the cache full.
C1_Witness ==
  /\ maxSize = MaxCapacity
  /\ Len(lruList) = maxSize
  /\ \E t \in Procs :
       /\ call[t].op = "Put" /\ call[t].stage = "unlock"
       /\ call[t].ret = "insert" /\ call[t].evicted # {}

\* C2 (as stated, for every capacity N): a Put of a key not in the cache removes
\* exactly one entry, the least recently used one, when the cache holds
\* capacity-many entries, and removes nothing when it holds fewer; then it
\* inserts the key.
C2_PutEvictsExactlyLRU ==
  [][\A t \in Procs :
       Put(t) /\ call[t].key \notin ListKeys(lruList) =>
         /\ call[t].key \in ListKeys(lruList')
         /\ Len(lruList) = maxSize =>
              /\ Len(recency) > 0
              /\ ListKeys(lruList) \ ListKeys(lruList') = {recency[1].key}
              /\ Len(lruList') = maxSize
         /\ Len(lruList) < maxSize =>
              ListKeys(lruList) \subseteq ListKeys(lruList')]_vars

\* C2 restricted to capacities N >= 1, where it holds.
C2_PutEvictsExactlyLRU_Positive ==
  [][\A t \in Procs :
       maxSize >= 1 /\ Put(t) /\ call[t].key \notin ListKeys(lruList) =>
         /\ call[t].key \in ListKeys(lruList')
         /\ Len(lruList) = maxSize =>
              /\ Len(recency) > 0
              /\ ListKeys(lruList) \ ListKeys(lruList') = {recency[1].key}
              /\ Len(lruList') = maxSize
         /\ Len(lruList) < maxSize =>
              ListKeys(lruList) \subseteq ListKeys(lruList')]_vars

\* C3: Get never reports found=true for an entry whose age, the time since the
\* most recent Put of its key, exceeds the TTL.
C3_GetNeverReturnsExpired ==
  [][\A t \in Procs :
       Get(t) /\ call'[t].found =>
         /\ call[t].key \in {recency[i].key : i \in 1..Len(recency)}
         /\ now - LastPut(call[t].key) <= ttl]_vars

\* C3 witness: a Get found its entry older than the TTL and reported it absent.
C3_Witness ==
  \E t \in Procs :
    /\ call[t].op = "Get" /\ call[t].stage = "unlock"
    /\ call[t].ret = "expired" /\ ~call[t].found

\* ------------------------------------------------------------ claims: service
InHandler(r) == req[r].pc \notin {"idle", "aborted"}

InFlight == {r \in Procs : InHandler(r)}

\* C4: the requests that have entered the limiter and not yet left it are never
\* more than the limit.
C4_InFlightWithinLimit == Cardinality(InFlight) <= ConcurrencyLimit

\* C4 witness: the limiter is full and has turned a request away.
C4_Witness ==
  /\ Cardinality(InFlight) = ConcurrencyLimit
  /\ \E r \in Procs : req[r].pc = "aborted"

\* C5: a request that arrives while every token is held is rejected in that very
\* step with 503 (not 404); neither then nor when it returns does it take a
\* token or touch the cache or Redis, and it only returns: it never enters the
\* handler.
C5_RejectedImmediately ==
  [][\A r \in Procs :
       /\ req[r].pc = "idle" /\ req'[r].pc # "idle" /\ semaphore = ConcurrencyLimit =>
            /\ req'[r].pc = "aborted"
            /\ req'[r].status = 503 /\ req'[r].status # 404
            /\ UNCHANGED <<cache, lruList, timestamps, redis, semaphore>>
       /\ req[r].pc = "aborted" /\ req'[r] # req[r] =>
            /\ req'[r].pc = "idle"
            /\ UNCHANGED <<cache, lruList, timestamps, redis, semaphore>>]_vars

\* C5 witness: a request has been rejected while both tokens are held.
C5_Witness ==
  /\ semaphore = ConcurrencyLimit
  /\ \E r \in Procs : req[r].pc = "aborted" /\ req[r].status = 503

\* C6: the tokens held are exactly those of the admitted requests that have not
\* yet returned, whether their handler answered 200 or 404 or panicked; so when
\* none is left in the handler every token is free.
C6_TokensMatchInFlight ==
  /\ semaphore = Cardinality(InFlight)
  /\ InFlight = {} => TokenFree

\* C6 witness: a handler has panicked, and every admitted request has returned
\* and given its token back.
C6_Witness ==
  /\ panicked
  /\ finished >= 1
  /\ InFlight = {}
  /\ semaphore = 0

IsRegistered(c) == c \in {"welcome", "navigation", "user_profile", "footer"}

\* C7: after a failed getFromRedis the request goes on to generation and is
\* never served from a cache tier; every finished lookup of a registered
\* component has status 200 and carries that component's artifact, and the only
\* other answer of the handler is the 404 of an unregistered component.
C7_FetchFailureIsMiss ==
  \A r \in Procs :
    InHandler(r) =>
      /\ <<"Get", "error">> \in SeqRange(req[r].ops) =>
           /\ req[r].pc \in {"generate", "store", "set", "done"}
           /\ req[r].hit = ""
           /\ req[r].pc = "done" /\ IsRegistered(req[r].componentType) =>
                /\ req[r].status = 200
                /\ req[r].body.Cached = FALSE
      /\ req[r].pc = "done" =>
           IF IsRegistered(req[r].componentType)
           THEN /\ req[r].status = 200
                /\ req[r].body.ComponentName
                     = componentTemplates[req[r].componentType].ComponentName
           ELSE req[r].status = 404

\* C7 witness: a lookup of a registered component whose every Redis operation
\* failed has answered 200.
C7_Witness ==
  \E r \in Procs :
    /\ InHandler(r) /\ req[r].pc = "done"
    /\ req[r].ops = <<<<"Get", "error">>, <<"Set", "error">>>>
    /\ IsRegistered(req[r].componentType)
    /\ req[r].status = 200

\* C8: StoreLocal leaves the generated artifact in the local cache under the
\* request's key, and setInRedis, failed or not, leaves the local cache alone
\* and is followed by the same answer: 200 and the artifact with Cached = false.
C8_StoreFailureTolerated ==
  [][\A r \in Procs :
       /\ InHandler(r) /\ req[r].pc = "store" /\ req'[r].pc # "store" =>
            /\ req[r].cacheKey \in ListKeys(lruList')
            /\ ListElement(lruList', req[r].cacheKey).value = req[r].component
       /\ InHandler(r) /\ req[r].pc = "set" /\ req'[r].pc # "set" =>
            /\ req'[r].pc = "done"
            /\ req'[r].status = 200
            /\ req'[r].body = [req[r].component EXCEPT !.Cached = FALSE]
            /\ UNCHANGED <<cache, lruList, timestamps>>]_vars

\* C8 witness: setInRedis failed and the request answered 200 with the artifact.
C8_Witness ==
  \E r \in Procs :
    /\ InHandler(r) /\ req[r].pc = "done"
    /\ Len(req[r].ops) > 0 /\ req[r].ops[Len(req[r].ops)] = <<"Set", "error">>
    /\ req[r].status = 200
    /\ req[r].body.Cached = FALSE

\* C9: a request for "en" or for a language without a table uses the key of
\* (component, "en"), and neither the local cache nor Redis ever holds two
\* entries with the "en" artifact of one component.
C9_UnsupportedLanguagesShareKey ==
  /\ \A r \in Procs :
       InHandler(r) /\ req[r].pc # "start"
         /\ req[r].lang \notin {"es", "fr", "de"} =>
           req[r].cacheKey = <<"component", req[r].componentType, "en">>
  /\ \A c \in {"welcome", "navigation", "user_profile", "footer"} :
       /\ Cardinality({i \in 1..Len(lruList) :
                         /\ lruList[i].value.ComponentName
                              = componentTemplates[c].ComponentName
                         /\ lruList[i].value.Language = "en"}) <= 1
       /\ Cardinality({k \in DOMAIN redis :
                         /\ redis[k].data.fields.ComponentName
                              = componentTemplates[c].ComponentName
                         /\ redis[k].data.fields.Language = "en"}) <= 1

\* C9 witness: lookups of one component in "zh" and in "ja" have both answered
\* 200 and the local cache holds a single entry.
C9_Witness ==
  \E r1, r2 \in Procs :
    /\ InHandler(r1) /\ req[r1].pc = "done" /\ req[r1].status = 200
    /\ InHandler(r2) /\ req[r2].pc = "done" /\ req[r2].status = 200
    /\ req[r1].lang = "zh" /\ req[r2].lang = "ja"
    /\ req[r1].componentType = req[r2].componentType
    /\ Len(lruList) = 1

\* The request generated its artifact itself.
Generated(r) == InHandler(r) /\ req[r].hit = "" /\ req[r].component # Nil

\* C10: a generated artifact carries the requested language when that language
\* has a table and "en" otherwise, and its localized values are those of the
\* table of the language it carries.
C10_ArtifactLanguageIsUsedLanguage ==
  \A r \in Procs :
    Generated(r) =>
      LET a == req[r].component IN
      /\ a.Language \in {"en", "es", "fr", "de"}
      /\ a.Language = IF req[r].lang \in {"en", "es", "fr", "de"}
                      THEN req[r].lang ELSE "en"
      /\ \A k \in DOMAIN a.LocalizedData :
           a.LocalizedData[k] = localizationDB[a.Language][k]

\* C10 witness: one request generated in "es", which has a table, and one in
\* "zh", which has none.
C10_Witness ==
  \E r1, r2 \in Procs :
    /\ Generated(r1) /\ req[r1].lang = "es" /\ req[r1].component.Language = "es"
    /\ Generated(r2) /\ req[r2].lang = "zh" /\ req[r2].component.Language = "en"

\* C11: every entry of the local cache and of Redis is stored under the key of
\* a registered component and a language that has a table, and holds that
\* component's artifact in that language; every 200 answer carries the language
\* of the key the request looked up or stored under.
C11_KeyArtifactResponseAgree ==
  /\ \A i \in 1..Len(lruList) :
       LET k == lruList[i].key
           a == lruList[i].value IN
       /\ Len(k) = 3 /\ k[1] = "component"
       /\ IsRegistered(k[2])
       /\ k[3] \in {"en", "es", "fr", "de"}
       /\ a.Language = k[3]
       /\ a.ComponentName = componentTemplates[k[2]].ComponentName
  /\ \A k \in DOMAIN redis :
       LET a == Unmarshal(redis[k].data) IN
       /\ Len(k) = 3 /\ k[1] = "component"
       /\ IsRegistered(k[2])
       /\ k[3] \in {"en", "es", "fr", "de"}
       /\ a.Language = k[3]
       /\ a.ComponentName = componentTemplates[k[2]].ComponentName
  /\ \A r \in Procs :
       InHandler(r) /\ req[r].pc = "done" /\ req[r].status = 200 =>
         /\ req[r].body.Language = req[r].cacheKey[3]
         /\ req[r].cacheKey[2] = req[r].componentType

\* C11 witness: a request in "zh" was served from Redis under the "en" key with
\* the "en" artifact, which both tiers hold under that key.
C11_Witness ==
  \E r \in Procs :
    /\ InHandler(r) /\ req[r].pc = "done" /\ req[r].status = 200
    /\ req[r].lang = "zh" /\ req[r].hit = "redis"
    /\ req[r].body.Language = "en"
    /\ req[r].cacheKey \in ListKeys(lruList)
    /\ req[r].cacheKey \in DOMAIN redis

\* C12: a lookup of a component without a template changes neither the local
\* cache nor Redis at any of its steps, issues no Set and no Expire, and ends
\* with 404 and the list of all the registered components, which is not empty.
C12_UnknownComponentNotFound ==
  [][\A r \in Procs :
       InHandler(r) /\ ~IsRegistered(req[r].componentType) /\ req'[r] # req[r] =>
         /\ UNCHANGED <<cache, lruList, timestamps, redis>>
         /\ req[r].pc # "done" =>
              /\ req'[r].pc \in {"fetch", "generate", "done"}
              /\ \A i \in 1..Len(req'[r].ops) : req'[r].ops[i][1] = "Get"
              /\ req'[r].pc = "done" =>
                   /\ req'[r].status = 404
                   /\ req'[r].body.available_components
                        = {"welcome", "navigation", "user_profile", "footer"}
                   /\ req'[r].body.available_components # {}]_vars

\* C12 witness: a lookup of an unregistered component has answered 404 after
\* missing in both tiers, while the local cache holds an entry.
C12_Witness ==
  \E r \in Procs :
    /\ InHandler(r) /\ req[r].pc = "done" /\ req[r].status = 404
    /\ ~IsRegistered(req[r].componentType)
    /\ req[r].ops = <<<<"Get", "error">>>>
    /\ lruList # <<>>

\* C13: a lookup whose key is in the local cache and not older than the TTL
\* answers 200 with the cached artifact and Cached = true in that step, issues
\* no Redis operation and leaves Redis, the stored values and the timestamps as
\* they were; the entry moves to the back of the list and nothing else changes.
C13_LocalHitWritesNothing ==
  [][\A r \in Procs :
       /\ InHandler(r) /\ req[r].pc = "start" /\ req'[r].pc # "start" =>
            LET key == CacheKey(req[r].componentType, req[r].lang) IN
            IF key \in ListKeys(lruList) /\ now - timestamps[key] <= ttl
            THEN /\ req'[r].pc = "done" /\ req'[r].status = 200
                 /\ req'[r].hit = "local"
                 /\ req'[r].body = [ListElement(lruList, key).value EXCEPT !.Cached = TRUE]
                 /\ req'[r].ops = <<>>
                 /\ UNCHANGED <<redis, cache, timestamps>>
                 /\ lruList' = ListRemove(lruList, key) \o <<ListElement(lruList, key)>>
            ELSE req'[r].hit = ""
       /\ InHandler(r) /\ req[r].pc = "done" /\ req[r].hit = "local" /\ req'[r] # req[r] =>
            /\ req'[r].pc = "idle"
            /\ UNCHANGED <<redis, cache, lruList, timestamps>>]_vars

\* C13 witness: a lookup was answered from the local cache.
C13_Witness ==
  \E r \in Procs :
    /\ InHandler(r) /\ req[r].pc = "done" /\ req[r].status = 200
    /\ req[r].hit = "local" /\ req[r].body.Cached
    /\ req[r].ops = <<>>
    /\ req[r].cacheKey \in ListKeys(lruList)

\* The key under which the handler caches the request: the requested language
\* when it has a table, "en" otherwise.
NormalizedKey(r) ==
  <<"component", req[r].componentType,
    IF req[r].lang \in {"en", "es", "fr", "de"} THEN req[r].lang ELSE "en">>

\* C14: after a local miss and a successful getFromRedis the handler puts the
\* fetched artifact in the local cache under the normalized key without
\* touching Redis, then issues Expire, which sets the entry's lifetime to
\* RedisTTL and neither adds an entry nor changes a payload, and answers 200
\* with the fetched artifact and Cached = true whether Expire failed or not; it
\* never reaches the generator.
C14_RemoteHitPopulatesAndRefreshes ==
  [][\A r \in Procs :
       /\ InHandler(r) /\ req[r].pc = "fetch" /\ req'[r].pc = "populate" =>
            /\ req[r].cacheKey \in DOMAIN redis
            /\ req'[r].component = Unmarshal(redis[req[r].cacheKey].data)
            /\ UNCHANGED <<cache, lruList, timestamps, redis>>
       /\ InHandler(r) /\ req[r].pc = "populate" /\ req'[r] # req[r] =>
            /\ req[r].cacheKey = NormalizedKey(r)
            /\ req'[r].pc = "expire"
            /\ req[r].cacheKey \in ListKeys(lruList')
            /\ ListElement(lruList', req[r].cacheKey).value = req[r].component
            /\ timestamps'[req[r].cacheKey] = now
            /\ UNCHANGED redis
       /\ InHandler(r) /\ req[r].pc = "expire" /\ req'[r] # req[r] =>
            /\ req'[r].pc = "done" /\ req'[r].status = 200
            /\ req'[r].body = [req[r].component EXCEPT !.Cached = TRUE]
            /\ Len(req'[r].ops) = 2
            /\ req'[r].ops[1] = <<"Get", "ok">>
            /\ req'[r].ops[2][1] = "Expire"
            /\ UNCHANGED <<cache, lruList, timestamps>>
            /\ DOMAIN redis' = DOMAIN redis
            /\ \A k \in DOMAIN redis :
                 /\ redis'[k].data = redis[k].data
                 /\ k # req[r].cacheKey => redis'[k] = redis[k]
            /\ req'[r].ops[2][2] = "ok" /\ req[r].cacheKey \in DOMAIN redis =>
                 redis'[req[r].cacheKey].expireAt = now + RedisTTL]_vars

\* C14 witness: a lookup served from Redis answered 200 with Cached = true
\* although its Expire failed, and the local cache holds its key.
C14_Witness ==
  \E r \in Procs :
    /\ InHandler(r) /\ req[r].pc = "done" /\ req[r].status = 200
    /\ req[r].hit = "redis" /\ req[r].body.Cached
    /\ req[r].ops = <<<<"Get", "ok">>, <<"Expire", "error">>>>
    /\ req[r].cacheKey \in ListKeys(lruList)

\* C15: a request whose artifact was just generated puts it in the local cache
\* under the normalized key, then issues one Set when there is a Redis client
\* and none otherwise, and answers 200 with the artifact and Cached = false; at
\* the moment it answers the local cache holds an entry for its key.
C15_GeneratedIsStoredInBothTiers ==
  [][\A r \in Procs :
       /\ InHandler(r) /\ req[r].pc = "store" /\ req'[r] # req[r] =>
            /\ req[r].cacheKey = NormalizedKey(r)
            /\ req[r].cacheKey \in ListKeys(lruList')
            /\ ListElement(lruList', req[r].cacheKey).value = req[r].component
            /\ req'[r].pc = IF redisClient = "nil" THEN "done" ELSE "set"
       /\ InHandler(r) /\ req[r].pc \in {"store", "set"} /\ req'[r].pc = "done" =>
            /\ req'[r].status = 200
            /\ req'[r].body = [req[r].component EXCEPT !.Cached = FALSE]
            /\ req'[r].body.Cached = FALSE
            /\ req[r].cacheKey \in ListKeys(lruList')
            /\ Cardinality({i \in 1..Len(req'[r].ops) : req'[r].ops[i][1] = "Set"})
                 = IF redisClient = "nil" THEN 0 ELSE 1
            /\ \A i \in 1..Len(req'[r].ops) : req'[r].ops[i][1] # "Expire"]_vars

\* C15 witness: a request missed in both tiers, generated its artifact, stored
\* it in both and answered with Cached = false.
C15_Witness ==
  \E r \in Procs :
    /\ InHandler(r) /\ req[r].pc = "done" /\ req[r].status = 200
    /\ req[r].hit = "" /\ ~req[r].body.Cached
    /\ req[r].ops = <<<<"Get", "error">>, <<"Set", "ok">>>>
    /\ req[r].cacheKey \in ListKeys(lruList)
    /\ req[r].cacheKey \in DOMAIN redis

\* What holds of the service while it runs without a Redis client.
WithoutRedis ==
  /\ redis = EmptyMap
  /\ \A r \in Procs :
       InHandler(r) =>
         /\ req[r].ops = <<>>
         /\ req[r].pc \in {"start", "generate", "store", "done"}
         /\ req[r].hit \in {"", "local"}
         /\ req[r].pc = "done" =>
              IF IsRegistered(req[r].componentType)
              THEN /\ req[r].status = 200
                   /\ req[r].body.ComponentName
                        = componentTemplates[req[r].componentType].ComponentName
              ELSE req[r].status = 404

\* C16: when main() dropped the Redis client it stays dropped; from then on no
\* request issues a Redis operation or enters a Redis step, Redis is never
\* written, and every finished lookup of a registered component answered 200
\* with its artifact.
C16_DisabledRedisStaysDisabled ==
  [][redisClient = "nil" => redisClient' = "nil" /\ WithoutRedis']_vars

\* C16 witness: without a Redis client one lookup was generated and another was
\* served from the local cache.
C16_Witness ==
  /\ redisClient = "nil"
  /\ \E r1, r2 \in Procs :
       /\ InHandler(r1) /\ req[r1].pc = "done" /\ req[r1].status = 200
       /\ req[r1].hit = ""
       /\ InHandler(r2) /\ req[r2].pc = "done" /\ req[r2].status = 200
       /\ req[r2].hit = "local"

\* C17: a health probe is always accepted, also while every token is held, and
\* each of its steps can always be taken; it never waits for a token; its
\* answer is 200 "healthy" with the size the cache has when it is read, reports
\* the Redis server as disconnected when there is no client (and possibly when
\* there is one), and no step of it changes the tokens, the requests or the
\* caches.
C17_HealthBypassesLimiter ==
  /\ [](/\ probe.pc = "idle" => ENABLED HealthCheck
        /\ probe.pc = "ping" => ENABLED HealthPing
        /\ probe.pc = "size" => ENABLED HealthSize)
  /\ [][/\ probe' # probe =>
             UNCHANGED <<semaphore, req, redis, cache, lruList, timestamps>>
        /\ probe.pc = "idle" /\ probe' # probe =>
             /\ probe'.pc \in {"ping", "size"}
             /\ probe'.pc = "ping" <=> redisClient # "nil"
        /\ probe.pc # "done" /\ probe'.pc = "done" =>
             /\ probe.pc = "size"
             /\ probe'.status = 200
             /\ probe'.body.status = "healthy"
             /\ probe'.body.cache_size = Len(lruList)
             /\ probe'.body.redis_status \in {"connected", "disconnected"}
             /\ redisClient = "nil" => probe'.body.redis_status = "disconnected"]_vars

\* C17 witness: the probe was answered 200 "healthy" while both tokens were
\* held and a request had been turned away, with a Redis client whose Ping
\* failed.
C17_Witness ==
  /\ probe.pc = "done" /\ probe.status = 200
  /\ semaphore = ConcurrencyLimit
  /\ \E r \in Procs : req[r].pc = "aborted"
  /\ redisClient = "client"
  /\ probe.body.redis_status = "disconnected"

\* ------------------------------------------------------------ claims: TTLCache order
\* The keys of the list, front first.
ListOrder == [i \in 1..Len(lruList) |-> lruList[i].key]

\* C18: a Get that hits k leaves k at the back of the list and the other entries
\* as they were, in their order; the list is always in the order of last use
\* (Put or Get-hit), and a Put that evicts removes the entry at the front, the
\* least recently used one, so k goes only after all the entries that were
\* present at the hit and not used since.
C18_GetHitMakesMostRecent ==
  [][/\ ListOrder' = HistKeys'
     /\ \A t \in Procs :
          /\ Get(t) /\ call'[t].found =>
               /\ lruList'[Len(lruList')].key = call[t].key
               /\ ListRemove(lruList', call[t].key) = ListRemove(lruList, call[t].key)
               /\ Len(lruList') = Len(lruList)
          /\ Put(t) /\ call'[t].evicted # {} =>
               /\ call'[t].evicted = {recency[1].key}
               /\ ListOrder' = Tail(ListOrder) \o <<call[t].key>>]_vars

\* C18 witness: in a full cache of the largest capacity a Get has hit the key
\* that was Put before the others, and that key is now at the back.
C18_Witness ==
  \E t \in Procs :
    /\ call[t].op = "Get" /\ call[t].stage = "unlock" /\ call[t].ret = "hit"
    /\ maxSize = MaxCapacity /\ Len(lruList) = maxSize
    /\ lruList[Len(lruList)].key = call[t].key
    /\ timestamps[call[t].key] < timestamps[lruList[1].key]

\* C19: a Get of a key that is present and whose last Put is older than the
\* TTL reports not found and removes exactly that entry: the list is the old
\* list without the key, one shorter, and a Size then returns that length.
C19_ExpiredGetRemovesEntry ==
  [][\A t \in Procs :
       /\ Get(t) /\ call[t].key \in ListKeys(lruList)
          /\ now - LastPut(call[t].key) > ttl =>
            /\ ~call'[t].found
            /\ call'[t].value = Nil
            /\ call[t].key \notin ListKeys(lruList')
            /\ lruList' = ListRemove(lruList, call[t].key)
            /\ Len(lruList') = Len(lruList) - 1
            /\ cache' = cache \ {call[t].key}
            /\ timestamps' = MapDelete(timestamps, call[t].key)
       /\ Size(t) => call'[t].size = Len(lruList)]_vars

\* C19 witness: a Get found its key expired and removed it while another entry
\* stayed in the cache.
C19_Witness ==
  \E t \in Procs :
    /\ call[t].op = "Get" /\ call[t].stage = "unlock" /\ call[t].ret = "expired"
    /\ call[t].key \notin ListKeys(lruList)
    /\ lruList # <<>>

\* C20: a Put of a key already in the cache, expired or not, leaves the key at
\* the back of the list with the new value and the time of the Put as its
\* timestamp; the other entries keep their order, values and timestamps, the
\* number of entries does not change and nothing is evicted, also when the
\* cache is full.
C20_PutExistingReplaces ==
  [][\A t \in Procs :
       Put(t) /\ call[t].key \in ListKeys(lruList) =>
         /\ lruList' = ListRemove(lruList, call[t].key)
                         \o <<[key |-> call[t].key, value |-> call[t].value]>>
         /\ timestamps' = [timestamps EXCEPT ![call[t].key] = now]
         /\ Len(lruList') = Len(lruList)
         /\ ListKeys(lruList') = ListKeys(lruList)
         /\ cache' = cache
         /\ call'[t].evicted = {}]_vars

\* C20 witness: in a full cache of three entries a Put has replaced the value
\* of an entry first Put at an earlier time by a different one; the entry is at
\* the back with the time of this Put, behind the two others, of which the
\* front one is older.
C20_Witness ==
  \E t \in Procs :
    /\ call[t].op = "Put" /\ call[t].stage = "unlock" /\ call[t].ret = "update"
    /\ call[t].replaced # Nil /\ call[t].replaced # call[t].value
    /\ maxSize = 3 /\ Len(lruList) = 3
    /\ now > 0
    /\ lruList[3] = [key |-> call[t].key, value |-> call[t].value]
    /\ timestamps[call[t].key] = now
    /\ timestamps[lruList[1].key] < now

\* ------------------------------------------------------------ claims: TTLCache state
\* Some entry of the list is older than the TTL.
HoldsExpired == \E i \in 1..Len(lruList) : now - timestamps[lruList[i].key] > ttl

\* C21: the passage of time changes nothing in the cache; Size returns the
\* number of entries in the list, those older than the TTL included; and an
\* entry leaves the list only by a Get of its key after its TTL, by the
\* eviction of a Put, or by Clear.
C21_SizeCountsStructuralEntries ==
  [][/\ now' # now => UNCHANGED <<cache, lruList, timestamps>>
     /\ \A t \in Procs : Size(t) =>
          /\ call'[t].size = Len(lruList)
          /\ call'[t].size = Len(recency)
     /\ \A k \in ListKeys(lruList) \ ListKeys(lruList') :
          \E t \in Procs :
            \/ Get(t) /\ call[t].key = k /\ now - LastPut(k) > ttl
            \/ Put(t) /\ call'[t].evicted = {k}
            \/ Clear(t)]_vars

\* C21 witness: Size has counted an entry that is older than the TTL.
C21_Witness ==
  \E t \in Procs :
    /\ call[t].op = "Size" /\ call[t].stage = "unlock"
    /\ call[t].size = Len(lruList) /\ call[t].size >= 1
    /\ HoldsExpired

\* The step is one of goroutine t's.
StepOf(t) == call'[t] # call[t]

\* Goroutine t is between two statements of Clear.
InsideClear(t) == call[t].op = "Clear" /\ call[t].stage \in {"list", "timestamps"}

\* C22: when Clear returns the cache is empty; a Size then returns 0 and a Get
\* finds only keys Put since; and while a Clear is between its statements no
\* other call takes a step, so none sees the entries partly dropped.
C22_ClearDropsAllAtomically ==
  [][\A t \in Procs :
       /\ Clear(t) /\ call'[t].stage = "unlock" =>
            cache' = {} /\ lruList' = <<>> /\ timestamps' = EmptyMap
       /\ InsideClear(t) =>
            \A u \in Procs \ {t} : call[u].stage = "idle" /\ ~StepOf(u)
       /\ Size(t) => call'[t].size = Len(recency)
       /\ Get(t) /\ call'[t].found => call[t].key \in SeqRange(HistKeys)]_vars

\* C22 witness: a Clear of a cache that held entries is between its statements:
\* the map is empty, the list is not, and every other goroutine is outside the
\* cache.
C22_Witness ==
  \E t \in Procs :
    /\ InsideClear(t)
    /\ cache = {} /\ lruList # <<>>
    /\ \A u \in Procs \ {t} : call[u].stage = "idle"

\* The map, the list and the timestamps hold the same keys, each once.
Consistent ==
  /\ cache = ListKeys(lruList)
  /\ DOMAIN timestamps = ListKeys(lruList)
  /\ Cardinality(ListKeys(lruList)) = Len(lruList)

\* C29: a call takes its steps while no other call is in progress, holding the
\* mutex; it starts from a state no mutation has left half done; Get, Put and
\* Size return what the calls before them, in the order they took the mutex,
\* determine; so the calls take effect one after the other.
C29_CallsAreSerialized ==
  [][\A t \in Procs :
       StepOf(t) =>
         /\ \A u \in Procs \ {t} : call[u].stage = "idle" /\ ~StepOf(u)
         /\ call[t].stage # "idle" => mu = t
         /\ call[t].stage = "body" => Consistent /\ ListOrder = HistKeys
         /\ Size(t) => call'[t].size = Len(recency)
         /\ Get(t) =>
              call'[t].found = (/\ call[t].key \in SeqRange(HistKeys)
                                /\ now - LastPut(call[t].key) <= ttl)
         /\ Put(t) => HistKeys'[Len(HistKeys')] = call[t].key]_vars

\* C29 witness: one goroutine holds the mutex in the middle of Clear while the
\* others are outside the cache, and the containers disagree.
C29_Witness ==
  \E t \in Procs :
    /\ mu = t /\ call[t].op = "Clear" /\ call[t].stage = "timestamps"
    /\ lruList = <<>> /\ DOMAIN timestamps # {}
    /\ \A u \in Procs \ {t} : call[u].stage = "idle"

\* C30: whenever no call is between two statements of a mutation, the list
\* holds each key at most once and the map, the list and the timestamps have
\* the same keys.
C30_OneEntryPerKey ==
  (\A t \in Procs : ~InsideClear(t)) => Consistent

\* C30 witness: a full cache of the largest capacity after a Get has removed an
\* expired entry and a Put has evicted one.
C30_Witness ==
  /\ maxSize = MaxCapacity /\ Len(lruList) = maxSize
  /\ mu = 0
  /\ now = MaxClock
  /\ \A i \in 1..Len(lruList) : timestamps[lruList[i].key] = now

\* ------------------------------------------------------------ claims: generator
\* C23: two requests that generated the artifact of the same component in the
\* same language carry different component ids.
C23_GenerationsHaveDistinctIds ==
  \A r1, r2 \in Procs :
    /\ r1 # r2 /\ Generated(r1) /\ Generated(r2)
    /\ req[r1].componentType = req[r2].componentType
    /\ req[r1].component.Language = req[r2].component.Language
    => req[r1].component.Metadata.ComponentID # req[r2].component.Metadata.ComponentID

\* C24: two requests that generated for the same component and the same
\* requested language hold artifacts with equal templates and equal localized
\* data, whenever each was generated and whatever the caches held.
C24_GenerationIsDeterministic ==
  \A r1, r2 \in Procs :
    /\ Generated(r1) /\ Generated(r2)
    /\ req[r1].componentType = req[r2].componentType
    /\ req[r1].lang = req[r2].lang
    => /\ req[r1].component.Template = req[r2].component.Template
       /\ req[r1].component.LocalizedData = req[r2].component.LocalizedData

\* C24 witness: the same component and language were generated at two times,
\* the second after the first was cached.
C24_Witness ==
  \E r1, r2 \in Procs :
    /\ r1 # r2 /\ Generated(r1) /\ Generated(r2)
    /\ req[r1].componentType = req[r2].componentType
    /\ req[r1].lang = req[r2].lang
    /\ req[r1].component.Metadata.LastUpdated # req[r2].component.Metadata.LastUpdated
    /\ req[r1].pc = "done" /\ lruList # <<>>

\* C25: a call of the generator for a registered component returns an artifact
\* whose localized data has exactly the template's required keys: the bracketed
\* key for each key the table lacks, the table's string for the others.
C25_MissingStringsGetPlaceholder ==
  gen.pc = "return" =>
    LET a == gen.component
        required == SeqRange(componentTemplates[gen.componentType].RequiredKeys) IN
    /\ a # Nil
    /\ DOMAIN a.LocalizedData = required
    /\ \A k \in required :
         a.LocalizedData[k] = IF k \in gen.missing
                              THEN [bracketed |-> k]
                              ELSE localizationDB[a.Language][k]

\* C25 witness: the generator returned for a language without a table while the
\* "en" table lacked as many required keys as the bound allows.
C25_Witness ==
  /\ gen.pc = "return"
  /\ gen.lang = "zh"
  /\ Cardinality(gen.missing) = MaxMissing
  /\ \A k \in gen.missing : gen.component.LocalizedData[k] = [bracketed |-> k]

\* ------------------------------------------------------------ claims: requests
\* C26: the component objects held by componentCache never carry Cached = true,
\* and no request that answered 200 wrote a field of its component after
\* putting it in componentCache.
C26_CachedArtifactIsImmutable ==
  /\ \A i \in 1..Len(lruList) : ~lruList[i].value.Cached
  /\ \A r \in Procs :
       InHandler(r) /\ req[r].pc = "done" /\ req[r].status = 200 => req[r].late = {}

\* C27: a Redis call whose client gave up while it was in flight does not
\* complete: it returns without a result and without having written to Redis.
C27_CancelAbortsRemoteCall ==
  [][\A r \in Procs :
       InHandler(r) /\ InRedisCall(r) /\ req[r].cancelled = req[r].pc
         /\ req'[r].pc # req[r].pc =>
           /\ req'[r].ops[Len(req'[r].ops)][2] # "ok"
           /\ UNCHANGED redis]_vars

\* C28: every request in the handler eventually has its answer, and eventually
\* has left the limiter, whatever the Redis calls return.
C28_LookupsTerminate ==
  \A r \in Procs :
    /\ InHandler(r) ~> (InHandler(r) /\ req[r].pc = "done")
    /\ InHandler(r) ~> ~InHandler(r)

\* C28 witness: with a Redis client whose every call failed, a lookup was
\* generated and cached locally, and every request has left the limiter.
C28_Witness ==
  /\ redisClient = "client"
  /\ redis = EmptyMap
  /\ lruList # <<>>
  /\ finished >= 1
  /\ InFlight = {}
  /\ semaphore = 0

\* ------------------------------------------------------------ claims: TTLCache, degenerate and boundary cases
\* C31: a cache created with capacity 0 never holds an entry, and Size()
\* returns 0 whatever was Put.
C31_ZeroCapacityHoldsNothing ==
  maxSize = 0 =>
    /\ Len(lruList) = 0
    /\ \A t \in Procs :
         call[t].op = "Size" /\ call[t].stage = "unlock" => call[t].size = 0

ValueOf(l, k) == ListElement(l, k).value

LastPutValue(k) == recency[CHOOSE i \in 1..Len(recency) : recency[i].key = k].putValue

\* C35: a Get of a key that is present with age at most the TTL, the age that
\* equals the TTL included, reports found=true and returns the value given by
\* the most recent Put of the key, whatever was done with other keys since;
\* the cache holds that value for the key: a Put sets it, and no step that is
\* not a Put of the key changes it.
C35_FreshGetReturnsLastPut ==
  [][/\ \A t \in Procs :
          Get(t) /\ call[t].key \in SeqRange(HistKeys)
                 /\ now - LastPut(call[t].key) <= ttl =>
            /\ call'[t].found
            /\ call'[t].value = LastPutValue(call[t].key)
            /\ call'[t].value = ValueOf(lruList, call[t].key)
            /\ call[t].key \in ListKeys(lruList')
     /\ \A t \in Procs :
          Put(t) => /\ call[t].key \in ListKeys(lruList')
                    /\ ValueOf(lruList', call[t].key) = call[t].value
     /\ \A k \in ListKeys(lruList) \cap ListKeys(lruList') :
          ValueOf(lruList', k) # ValueOf(lruList, k) =>
            \E t \in Procs : Put(t) /\ call[t].key = k]_vars

\* C35 witness: a Get has hit an entry whose age equals the TTL, at a time after
\* its Put, and returned the value of that Put, which is not the value the
\* entry at the front holds.
C35_Witness ==
  \E t \in Procs :
    /\ call[t].op = "Get" /\ call[t].stage = "unlock" /\ call[t].found
    /\ ttl >= 1
    /\ now - timestamps[call[t].key] = ttl
    /\ call[t].value = LastPutValue(call[t].key)
    /\ Len(lruList) >= 2
    /\ lruList[1].value # call[t].value

\* C36: in every state a Get of any key would, if it hits, leave every
\* timestamp as it is, that of its key being the time of the most recent Put of
\* the key, and would not hit a key whose most recent Put is longer ago than
\* the TTL, however often the key was read since. In the lookup path the local
\* Get that hits, and the rest of the request it answers, leave the timestamps
\* as they are, and a local Get later than the TTL after the Put does not hit.
C36_GetHitKeepsTimestamp ==
  /\ [](\A k \in ListKeys(lruList) :
          /\ GetOp(k).found =>
               /\ GetOp(k).timestamps = timestamps
               /\ timestamps[k] = LastPut(k)
          /\ now - LastPut(k) > ttl => ~GetOp(k).found)
  /\ [][\A r \in Procs :
          /\ LocalGet(r) /\ req'[r].hit = "local" => timestamps' = timestamps
          /\ InHandler(r) /\ req[r].hit = "local" /\ req'[r] # req[r] =>
               timestamps' = timestamps
          /\ LocalGet(r)
               /\ CacheKey(req[r].componentType, req[r].lang) \in SeqRange(HistKeys)
               /\ now - LastPut(CacheKey(req[r].componentType, req[r].lang)) > ttl =>
               req'[r].hit # "local"]_vars

\* C36 witness: a request was answered from the local cache when the entry's
\* age equalled the TTL, and the entry still carries the time of its Put.
C36_Witness ==
  \E r \in Procs :
    /\ InHandler(r) /\ req[r].pc = "done" /\ req[r].hit = "local"
    /\ req[r].cacheKey \in ListKeys(lruList)
    /\ now - timestamps[req[r].cacheKey] = ttl
    /\ timestamps[req[r].cacheKey] = LastPut(req[r].cacheKey)

\* C37: a Put of a new key into a full cache removes the least recently used
\* entry and no other, whether or not that entry or any other has outlived the
\* TTL; a Put into a cache that is not full, and a Put of a key the cache
\* holds, remove nothing.
C37_EvictionByRecencyOnly ==
  [][\A t \in Procs :
       Put(t) =>
         ListKeys(lruList) \ ListKeys(lruList') =
           IF call[t].key \notin ListKeys(lruList)
              /\ Len(lruList) >= maxSize /\ Len(recency) > 0
           THEN {recency[1].key}
           ELSE {}]_vars

\* C37 witness: a Put has evicted an entry that had not outlived the TTL while
\* an entry that has outlived it stays in the cache.
C37_Witness ==
  /\ HoldsExpired
  /\ \E t \in Procs :
       /\ call[t].op = "Put" /\ call[t].stage = "unlock" /\ call[t].ret = "insert"
       /\ call[t].evicted # {}
       /\ call[t].evictedAge >= 0 /\ call[t].evictedAge <= ttl

\* ------------------------------------------------------------ claims: interpolation
\* C34: interpolation replaces every marker whose key is in localizedData by the
\* quoted value of the key and leaves every other piece of the template as it
\* was.
C34_InterpolationReplacesKnownMarkers ==
  gen.pc = "interpolated" =>
    /\ Len(gen.result) = Len(gen.template)
    /\ \A i \in 1..Len(gen.template) :
         gen.result[i] =
           IF "l10n" \in DOMAIN gen.template[i]
              /\ gen.template[i].l10n \in DOMAIN gen.localizedData
           THEN Quoted(gen.localizedData[gen.template[i].l10n])
           ELSE gen.template[i]

\* C34 restricted to markers whose keys are spelled with letters and
\* underscores only, where it holds.
C34_InterpolationReplacesKnownMarkers_Letters ==
  gen.pc = "interpolated" =>
    /\ Len(gen.result) = Len(gen.template)
    /\ \A i \in 1..Len(gen.template) :
         gen.result[i] =
           IF "l10n" \in DOMAIN gen.template[i]
              /\ gen.template[i].l10n \notin KeysWithDigits
              /\ gen.template[i].l10n \in DOMAIN gen.localizedData
           THEN Quoted(gen.localizedData[gen.template[i].l10n])
           ELSE gen.template[i]

\* ------------------------------------------------------------ claims: the lookup path
\* C32: a request goes to the Redis Get only from a local Get that missed, with
\* a client; it goes to the generator only from a local Get that missed without
\* a client or from a Redis Get that failed, and a component is generated only
\* there; it answers once, and leaves only after its answer; a 200 answer
\* carries Cached = true exactly when it comes from the local hit or from the
\* Redis hit.
C32_TiersInFixedOrder ==
  [][\A r \in Procs :
       /\ req[r].pc \notin {"idle", "aborted", "fetch"} /\ req'[r].pc = "fetch" =>
            /\ req[r].pc = "start"
            /\ ~GetOp(CacheKey(req[r].componentType, req[r].lang)).found
            /\ RedisEnabled
       /\ req[r].pc \notin {"idle", "aborted", "generate"} /\ req'[r].pc = "generate" =>
            \/ /\ req[r].pc = "start"
               /\ ~GetOp(CacheKey(req[r].componentType, req[r].lang)).found
               /\ ~RedisEnabled
            \/ /\ req[r].pc = "fetch"
               /\ req'[r].ops = <<<<"Get", "error">>>>
       /\ req[r].pc \notin {"idle", "aborted", "store"} /\ req'[r].pc = "store" =>
            req[r].pc = "generate"
       /\ req[r].pc = "done" /\ req'[r] # req[r] => req'[r].pc = "idle"
       /\ InHandler(r) /\ req'[r].pc = "idle" =>
            req[r].pc = "done" /\ req[r].status \in {200, 404}
       /\ InHandler(r) /\ req[r].pc # "done" /\ req'[r].pc = "done"
            /\ req'[r].status = 200 =>
            /\ req'[r].body.Cached <=> req[r].pc \in {"start", "expire"}
            /\ req'[r].body.Cached <=> req'[r].hit \in {"local", "redis"}
            /\ req[r].pc = "start" <=> req'[r].hit = "local"
            /\ req[r].pc = "expire" <=> req'[r].hit = "redis"]_vars

\* C32 witness: one request has answered from the Redis hit and another after
\* generating, its Redis Get having failed.
C32_Witness ==
  \E r1, r2 \in Procs :
    /\ InHandler(r1) /\ req[r1].pc = "done" /\ req[r1].hit = "redis"
    /\ req[r1].body.Cached
    /\ InHandler(r2) /\ req[r2].pc = "done" /\ req[r2].hit = ""
    /\ req[r2].status = 200 /\ ~req[r2].body.Cached
    /\ req[r2].ops # <<>>
    /\ req[r2].ops[1] = <<"Get", "error">>

\* C33: no goroutine holds the cache mutex while a request is in a Redis call or
\* in generation, or at any other point between two cache calls, and every
\* request in the handler can take its next step whatever the other requests
\* are doing: there is no waiting for another request and no deadlock.
C33_NoRequestWaitsForAnother ==
  /\ mu = 0
  /\ \A r \in Procs : InHandler(r) => ENABLED HandlerStep(r)

\* C33 witness: one request is in a Redis call after it has put its component
\* in the local cache, and another is about to call the local cache.
C33_Witness ==
  \E r1, r2 \in Procs :
    /\ InHandler(r1) /\ req[r1].pc = "set"
    /\ InHandler(r2) /\ req[r2].pc \in {"start", "store"}
    /\ lruList # <<>>

\* C38: when two requests in the handler have both generated a component for
\* the same cache key and answered, both answered 200 with Cached = false, the
\* local cache holds exactly one entry for the key, and its value is the
\* component of one of the two; and a request about to generate or to store
\* can do so whatever the other is doing.
C38_ConcurrentMissesBothGenerate ==
  /\ \A r1, r2 \in Procs :
       r1 # r2 /\ InHandler(r1) /\ InHandler(r2)
         /\ req[r1].pc = "done" /\ req[r2].pc = "done"
         /\ req[r1].hit = "" /\ req[r2].hit = ""
         /\ IsRegistered(req[r1].componentType)
         /\ req[r1].cacheKey = req[r2].cacheKey =>
           /\ req[r1].status = 200 /\ req[r2].status = 200
           /\ ~req[r1].body.Cached /\ ~req[r2].body.Cached
           /\ Cardinality({i \in 1..Len(lruList) : lruList[i].key = req[r1].cacheKey}) = 1
           /\ ValueOf(lruList, req[r1].cacheKey)
                \in {req[r1].component, req[r2].component}
  /\ \A r \in Procs :
       InHandler(r) /\ req[r].pc \in {"generate", "store"} =>
         ENABLED (Generate(r) \/ StoreLocal(r))

\* C38 witness: two requests for the same key have both failed their Redis Get,
\* generated different components and answered.
C38_Witness ==
  \E r1, r2 \in Procs :
    /\ r1 # r2 /\ InHandler(r1) /\ InHandler(r2)
    /\ req[r1].pc = "done" /\ req[r2].pc = "done"
    /\ req[r1].hit = "" /\ req[r2].hit = ""
    /\ req[r1].status = 200 /\ req[r2].status = 200
    /\ req[r1].cacheKey = req[r2].cacheKey
    /\ req[r1].ops # <<>> /\ req[r2].ops # <<>>
    /\ req[r1].ops[1] = <<"Get", "error">> /\ req[r2].ops[1] = <<"Get", "error">>
    /\ req[r1].component # req[r2].component
    /\ req[r1].cacheKey \in ListKeys(lruList)
    /\ ValueOf(lruList, req[r1].cacheKey) = req[r2].component

OpNames(r) == [i \in 1..Len(req[r].ops) |-> req[r].ops[i][1]]

\* C39: the Redis operations of a request are none, or one Get, or one Get and
\* then one Expire, or one Get and then one Set; the Expire follows a Get that
\* succeeded, the Set follows a Get that failed and a generation; a request
\* answered from the local cache has issued none, and so has every request when
\* there is no client; a request for an unregistered component has issued at
\* most the Get.
C39_RemoteOpsInOrder ==
  \A r \in Procs :
    InHandler(r) =>
      /\ OpNames(r) \in {<<>>, <<"Get">>, <<"Get", "Expire">>, <<"Get", "Set">>}
      /\ "Expire" \in SeqRange(OpNames(r)) =>
           req[r].ops[1] = <<"Get", "ok">> /\ req[r].hit = "redis"
      /\ "Set" \in SeqRange(OpNames(r)) =>
           req[r].ops[1] = <<"Get", "error">> /\ Generated(r)
      /\ req[r].hit = "local" => req[r].ops = <<>>
      /\ ~RedisEnabled => req[r].ops = <<>>
      /\ ~IsRegistered(req[r].componentType) =>
           OpNames(r) \in {<<>>, <<"Get">>}

\* C39 witness: of two answered requests one has issued Get then Set and the
\* other Get then Expire.
C39_Witness ==
  \E r1, r2 \in Procs :
    /\ InHandler(r1) /\ req[r1].pc = "done" /\ OpNames(r1) = <<"Get", "Set">>
    /\ InHandler(r2) /\ req[r2].pc = "done" /\ OpNames(r2) = <<"Get", "Expire">>

Waiting == {r \in Procs : InHandler(r) /\ InRedisCall(r)}

\* C40: the requests in a Redis call all hold a token, so they are never more
\* than the limit; no step of the handler before its answer gives a token
\* back; and a request that arrives while as many requests as the limit are in
\* a Redis call is rejected with 503.
C40_RemoteCallsWithinLimit ==
  /\ [](/\ Cardinality(Waiting) <= semaphore
        /\ semaphore <= ConcurrencyLimit)
  /\ [][\A r \in Procs :
          /\ InHandler(r) /\ req[r].pc # "done" /\ req'[r] # req[r] =>
               semaphore' = semaphore
          /\ Cardinality(Waiting) = ConcurrencyLimit
               /\ req[r].pc = "idle" /\ req'[r].pc # "idle" =>
               req'[r].pc = "aborted" /\ req'[r].status = 503]_vars

\* C40 witness: as many requests as the limit are in a Redis call and a further
\* one has been rejected.
C40_Witness ==
  /\ Cardinality(Waiting) = ConcurrencyLimit
  /\ \E r \in Procs : req[r].pc = "aborted" /\ req[r].status = 503

====
